---- MODULE Spec2Model ----
(***************************************************************************)
(* A model of ReplitDatabaseClient (src/mod.ts): a client of a remote      *)
(* key-value store spoken to over HTTP.  Texts (keys, bodies, stored       *)
(* values) are sequences of one-character strings, so that the encodings   *)
(* the client applies (encodeURIComponent, JSON.stringify, URL parsing of  *)
(* the request target) are computed and not assumed.                       *)
(***************************************************************************)
EXTENDS Naturals, Sequences, FiniteSets, TLC

VARIABLES
    store,      \* the remote store: decoded key -> stored raw text
    url,        \* ReplitDatabaseClient.#url, the endpoint
    allSettled, \* ReplitDatabaseClient.#allSettled
    fromEnv,    \* TRUE iff the constructor took the REPLIT_DB_URL branch (timer set)
    env,        \* the value of the environment variable REPLIT_DB_URL
    timerError, \* TRUE once a refresh callback has thrown
    op,         \* the client operation in progress (or the last one finished)
    inflight,   \* HTTP requests issued and not yet answered
    responses,  \* HTTP responses delivered and not yet consumed
    prev,       \* history: the last write operation the client completed undisturbed
    refresh,    \* history: the parity of the refreshes, and whether the last one failed
    retry       \* #retry of the variants with #transaction: the re-sends allowed

vars ==
    <<store, url, allSettled, fromEnv, env, timerError, op, inflight, responses, prev,
      refresh, retry>>

-----------------------------------------------------------------------------
(* Bounds of the model. *)

\* the longest batch (keys of a delete, entries of a table-form set)
MaxBatch == 2

\* the largest value of options.retry
MaxRetry == 2

-----------------------------------------------------------------------------
(* Texts. *)

KA == <<"a">>
KB == <<"b">>
\* a key that starts with key a and holds a character that is reserved in a URL
KQ == <<"a", "?">>
EmptyText == <<>>

\* the non-empty keys the client is called with
Keys == {KA, KQ, KB}
\* the keys a caller may pass, the empty key included
KeyInputs == Keys \cup {EmptyText}
\* the listing order of the store (ascending byte order)
KeyOrder == <<KA, KQ, KB>>

IsPrefix(p, k) == Len(p) <= Len(k) /\ SubSeq(k, 1, Len(p)) = p

\* characters encodeURIComponent leaves alone (A-Z a-z 0-9 - _ . ! ~ * ' ( ))
Unreserved == {"a", "b", "e", "l", "n", "r", "t", "u", "1"}

\* the %XX escape of a reserved character
PercentCode(c) ==
    CASE c = "?" -> <<"%", "3", "F">>
      [] c = "#" -> <<"%", "2", "3">>
      [] c = "%" -> <<"%", "2", "5">>
      [] c = "/" -> <<"%", "2", "F">>
      [] c = "=" -> <<"%", "3", "D">>
      [] c = "&" -> <<"%", "2", "6">>
      [] c = "\"" -> <<"%", "2", "2">>
      [] c = "\n" -> <<"%", "0", "A">>

Reserved == {"?", "#", "%", "/", "=", "&", "\"", "\n"}

RECURSIVE encodeURIComponent(_)
encodeURIComponent(s) ==
    IF s = <<>> THEN <<>>
    ELSE (IF Head(s) \in Unreserved THEN <<Head(s)>> ELSE PercentCode(Head(s)))
         \o encodeURIComponent(Tail(s))

\* TRUE iff every % of s starts a known %XX escape
RECURSIVE WellEncoded(_)
WellEncoded(s) ==
    IF s = <<>> THEN TRUE
    ELSE IF Head(s) = "%"
         THEN /\ Len(s) >= 3
              /\ \E c \in Reserved : PercentCode(c) = SubSeq(s, 1, 3)
              /\ WellEncoded(SubSeq(s, 4, Len(s)))
         ELSE WellEncoded(Tail(s))

RECURSIVE decodeURIComponent(_)
decodeURIComponent(s) ==
    IF s = <<>> THEN <<>>
    ELSE IF Head(s) = "%"
         THEN <<CHOOSE c \in Reserved : PercentCode(c) = SubSeq(s, 1, 3)>>
              \o decodeURIComponent(SubSeq(s, 4, Len(s)))
         ELSE <<Head(s)>> \o decodeURIComponent(Tail(s))

\* the index of the first character of s that is in set cs, or Len(s) + 1
RECURSIVE IndexOf(_, _)
IndexOf(s, cs) ==
    IF s = <<>> THEN 1
    ELSE IF Head(s) \in cs THEN 1 ELSE 1 + IndexOf(Tail(s), cs)

\* String.prototype.split on a line break
RECURSIVE Split(_)
Split(s) ==
    LET i == IndexOf(s, {"\n"})
    IN  IF i > Len(s) THEN <<s>>
        ELSE <<SubSeq(s, 1, i - 1)>> \o Split(SubSeq(s, i + 1, Len(s)))

\* lines joined by line breaks
RECURSIVE Join(_)
Join(lines) ==
    IF lines = <<>> THEN <<>>
    ELSE IF Len(lines) = 1 THEN lines[1]
    ELSE lines[1] \o <<"\n">> \o Join(Tail(lines))

-----------------------------------------------------------------------------
(* JSON values and their text. *)

Null == [t |-> "null", s |-> <<>>]
Num1 == [t |-> "number", s |-> <<"1">>]
Str(chars) == [t |-> "string", s |-> chars]
True == [t |-> "boolean", s |-> <<"t", "r", "u", "e">>]
False == [t |-> "boolean", s |-> <<"f", "a", "l", "s", "e">>]
\* the JavaScript value undefined (no JSON value)
Undefined == [t |-> "undefined", s |-> <<>>]

\* the JSON values the model stores
JSONValues == {Num1, Str(<<>>)}

\* JSON.stringify
JSONStringify(v) ==
    CASE v.t = "null" -> <<"n", "u", "l", "l">>
      [] v.t = "string" -> <<"\"">> \o v.s \o <<"\"">>
      [] OTHER -> v.s

\* TRUE iff JSON.parse accepts the text
JSONParses(raw) ==
    \/ raw \in {<<"n", "u", "l", "l">>, <<"1">>, <<"t", "r", "u", "e">>,
                <<"f", "a", "l", "s", "e">>}
    \/ Len(raw) >= 2 /\ raw[1] = "\"" /\ raw[Len(raw)] = "\""

\* JSON.parse
JSONParse(raw) ==
    CASE raw = <<"n", "u", "l", "l">> -> Null
      [] raw = <<"1">> -> Num1
      [] raw = <<"t", "r", "u", "e">> -> True
      [] raw = <<"f", "a", "l", "s", "e">> -> False
      [] OTHER -> Str(SubSeq(raw, 2, Len(raw) - 1))

-----------------------------------------------------------------------------
(* URLs: the text of a URL is kept by its components; `valid` is FALSE for a *)
(* text that the URL constructor rejects.                                   *)

UrlText(valid, protocol, hostname, pathname, search, hash) ==
    [valid |-> valid, protocol |-> protocol, hostname |-> hostname,
     pathname |-> pathname, search |-> search, hash |-> hash]

\* the empty string, which is no URL
EmptyString == UrlText(FALSE, "", "", "", <<>>, <<>>)
\* a text that is no URL
NotAUrl == UrlText(FALSE, "", "", "not a url", <<>>, <<>>)
EnvUrlA == UrlText(TRUE, "https:", "kv.replit.com", "/v0/t1", <<>>, <<>>)
EnvUrlB == UrlText(TRUE, "http:", "kv.replit.com", "/v0/t2", <<>>, <<>>)
\* explicit urls given as options.url
GivenUrl == UrlText(TRUE, "https:", "kv.replit.com", "/v0/t1", <<"a">>, <<"b">>)
GivenFtp == UrlText(TRUE, "ftp:", "kv.replit.com", "/v0/t1", <<>>, <<>>)
GivenHost == UrlText(TRUE, "https:", "example.com", "/v0/t1", <<>>, <<>>)

\* the environment variable: unset, or set to a text
EnvUnset == [defined |-> FALSE, text |-> EmptyString]
EnvSet(text) == [defined |-> TRUE, text |-> text]
EnvValues == {EnvUnset, EnvSet(NotAUrl), EnvSet(EnvUrlA), EnvSet(EnvUrlB)}

\* Deno.env.get("REPLIT_DB_URL") ?? ""
EnvGetOrEmpty(e) == IF e.defined THEN e.text ELSE EmptyString

\* new URL(text): [ok |-> FALSE] stands for the TypeError it throws
NewURL(text) ==
    IF text.valid
    THEN [ok |-> TRUE,
          url |-> [protocol |-> text.protocol, hostname |-> text.hostname,
                   pathname |-> text.pathname, search |-> text.search,
                   hash |-> text.hash]]
    ELSE [ok |-> FALSE,
          url |-> [protocol |-> "", hostname |-> "", pathname |-> "",
                   search |-> <<>>, hash |-> <<>>]]

\* the options a client is constructed with; url "none" is options.url undefined
NoUrl == [given |-> FALSE, text |-> EmptyString]
OptUrl(text) == [given |-> TRUE, text |-> text]
OptionInputs ==
    [url : {NoUrl, OptUrl(GivenUrl), OptUrl(GivenFtp), OptUrl(GivenHost)},
     allSettled : {"undefined", "true", "false"}]

\* explicit urls that pass the constructor's checks or are no URL at all
GivenHttp == UrlText(TRUE, "http:", "kv.replit.com", "/v0/t2", <<"a">>, <<>>)
\* every way a client may be constructed
ConstructorInputs ==
    [url : {NoUrl, OptUrl(GivenUrl), OptUrl(GivenHttp), OptUrl(GivenFtp), OptUrl(GivenHost),
            OptUrl(NotAUrl)},
     allSettled : {"undefined", "true", "false"}]

\* the constructor has thrown an error of the given type: no instance, no timer
ConstructorFailed(settled, type) ==
    [ok |-> FALSE, allSettled |-> settled, timer |-> FALSE,
     url |-> NewURL(EmptyString).url, error |-> type]

\* the constructor has returned an instance
Constructed(settled, timer, endpoint) ==
    [ok |-> TRUE, allSettled |-> settled, timer |-> timer, url |-> endpoint, error |-> ""]

\* a constructor that falls back on a fixed endpoint when the variable is no URL
ConstructFromEnvWithDefault(settled, e) ==
    LET u == NewURL(EnvGetOrEmpty(e))
    IN  Constructed(settled, TRUE, IF u.ok THEN u.url ELSE NewURL(EnvUrlA).url)

\* the constructor when options.url is undefined: the endpoint is read from
\* REPLIT_DB_URL and setInterval is called
ConstructFromEnv(settled, e) ==
    LET u == NewURL(EnvGetOrEmpty(e))
    IN  IF u.ok THEN Constructed(settled, TRUE, u.url)
        ELSE ConstructorFailed(settled, "Error")

\* a constructor that does not check the hostname
ConstructFromUrlAnyHost(settled, text) ==
    LET urlLookUp == NewURL(text)
    IN  IF ~urlLookUp.ok THEN ConstructorFailed(settled, "TypeError")
        ELSE IF urlLookUp.url.protocol \notin {"http:", "https:"}
             THEN ConstructorFailed(settled, "SyntaxError")
        ELSE Constructed(settled, FALSE,
                         [urlLookUp.url EXCEPT !.search = <<>>, !.hash = <<>>])

\* a constructor that keeps the given url whole
ConstructFromUrlWhole(settled, text) ==
    LET urlLookUp == NewURL(text)
    IN  IF ~urlLookUp.ok THEN ConstructorFailed(settled, "TypeError")
        ELSE IF urlLookUp.url.protocol \notin {"http:", "https:"}
             THEN ConstructorFailed(settled, "SyntaxError")
        ELSE IF urlLookUp.url.hostname \notin {"kv.replit.com"}
             THEN ConstructorFailed(settled, "SyntaxError")
        ELSE Constructed(settled, FALSE, urlLookUp.url)

\* the constructor when options.url is given: new URL(`${origin}${pathname}`)
ConstructFromUrl(settled, text) ==
    LET urlLookUp == NewURL(text)
    IN  IF ~urlLookUp.ok THEN ConstructorFailed(settled, "TypeError")
        ELSE IF urlLookUp.url.protocol \notin {"http:", "https:"}
             THEN ConstructorFailed(settled, "SyntaxError")
        ELSE IF urlLookUp.url.hostname \notin {"kv.replit.com"}
             THEN ConstructorFailed(settled, "SyntaxError")
        ELSE Constructed(settled, FALSE,
                         [urlLookUp.url EXCEPT !.search = <<>>, !.hash = <<>>])

\* the constructor: ok = FALSE stands for the error it throws; timer = TRUE iff
\* it has called setInterval
Constructor(options, e) ==
    LET settled == (options.allSettled = "true")
    IN  IF ~options.url.given
        THEN ConstructFromEnv(settled, e)
        ELSE ConstructFromUrl(settled, options.url.text)

\* the callback with no catch block: the error of new URL escapes
RefreshCallbackUncaught(current, e) ==
    IF ~e.defined THEN [url |-> current, threw |-> FALSE]
    ELSE IF NewURL(e.text).ok THEN [url |-> NewURL(e.text).url, threw |-> FALSE]
    ELSE [url |-> current, threw |-> TRUE]

\* the setInterval callback: the endpoint it leaves, and whether an error
\* escapes it (the catch block swallows the error of new URL)
RefreshCallback(current, e) ==
    LET u == NewURL(EnvGetOrEmpty(e))
    IN  IF u.ok THEN [url |-> u.url, threw |-> FALSE]
        ELSE [url |-> current, threw |-> FALSE]

\* static exceedRateLimitsStatusCode of the variants with #transaction
ExceedRateLimitsStatusCode == 429

\* #retry = 1, the value when options.retry is undefined
DefaultRetry == 1

\* options.retry: undefined, or a safe integer that is not negative
RetryOptions ==
    {[given |-> FALSE, n |-> 0]} \cup {[given |-> TRUE, n |-> n] : n \in 0..MaxRetry}

\* #retry after the constructor of the variants
RetryOf(option) == IF option.given THEN option.n ELSE DefaultRetry

-----------------------------------------------------------------------------
(* HTTP requests as the client builds them. *)

\* the path and query of the URL `${url}/${key}` past the endpoint: a fragment
\* is not sent, and a "?" ends the path
FetchTarget(endpoint, suffix) ==
    LET sent == SubSeq(suffix, 1, IndexOf(suffix, {"#"}) - 1)
        q == IndexOf(sent, {"?"})
    IN  IF endpoint.hash # <<>> THEN [path |-> <<>>, query |-> endpoint.search]
        ELSE IF endpoint.search # <<>>
             THEN [path |-> <<>>, query |-> endpoint.search \o sent]
        ELSE [path |-> SubSeq(sent, 1, q - 1), query |-> SubSeq(sent, q + 1, Len(sent))]

Request(method, endpoint, target, body) ==
    [method |-> method, endpoint |-> endpoint, path |-> target.path,
     query |-> target.query, body |-> body]

\* get: GET `${url}/${key}`
GetRequest(endpoint, key) ==
    Request("GET", endpoint, FetchTarget(endpoint, <<"/">> \o key), <<>>)

\* delete: DELETE `${url}/${key}`
DeleteRequest(endpoint, key) ==
    Request("DELETE", endpoint, FetchTarget(endpoint, <<"/">> \o key), <<>>)

\* set: POST url with body `${encodeURIComponent(key)}=${encodeURIComponent(JSON.stringify(value))}`
SetRequest(endpoint, key, value) ==
    Request("POST", endpoint, [path |-> <<>>, query |-> endpoint.search],
            encodeURIComponent(key) \o <<"=">> \o encodeURIComponent(JSONStringify(value)))

\* keys: GET url with search parameters encode=true and prefix=<filter>
KeysRequest(endpoint, filter) ==
    Request("GET", endpoint,
            [path |-> <<>>,
             query |-> <<"e", "=", "t", "&", "p", "=">> \o encodeURIComponent(filter)],
            <<>>)

-----------------------------------------------------------------------------
(* The store's side of the wire protocol. *)

Response(status, body) == [status |-> status, body |-> body]

\* response.ok
ResponseOk(r) == r.status >= 200 /\ r.status <= 299

\* the key a request path names
PathKey(path) == decodeURIComponent(Tail(path))

\* the value of the query parameter prefix
QueryPrefix(query) ==
    LET rest == SubSeq(query, IndexOf(query, {"&"}) + 1, Len(query))
    IN  decodeURIComponent(SubSeq(rest, IndexOf(rest, {"="}) + 1, Len(rest)))

\* the keys of store st that start with prefix, in listing order, percent-encoded
RECURSIVE ListedKeys(_, _, _)
ListedKeys(st, prefix, order) ==
    IF order = <<>> THEN <<>>
    ELSE (IF Head(order) \in DOMAIN st /\ IsPrefix(prefix, Head(order))
          THEN <<encodeURIComponent(Head(order))>> ELSE <<>>)
         \o ListedKeys(st, prefix, Tail(order))

\* the key and the value of a form body key=value
FormKey(body) == decodeURIComponent(SubSeq(body, 1, IndexOf(body, {"="}) - 1))
FormValue(body) == decodeURIComponent(SubSeq(body, IndexOf(body, {"="}) + 1, Len(body)))

\* store st without key k
Without(st, k) == [x \in DOMAIN st \ {k} |-> st[x]]
\* store st with key k bound to raw
With(st, k, raw) == [x \in DOMAIN st \cup {k} |-> IF x = k THEN raw ELSE st[x]]

EmptyStore == [x \in {} |-> <<>>]

\* the store's answer to a request, and the store it leaves
ServerReply(st, req) ==
    CASE req.method = "GET" /\ req.path = <<>> ->
            [store |-> st,
             resp |-> Response(200, Join(ListedKeys(st, QueryPrefix(req.query), KeyOrder)))]
      [] req.method = "GET" /\ req.path # <<>> ->
            [store |-> st,
             resp |-> IF PathKey(req.path) \in DOMAIN st
                      THEN Response(200, st[PathKey(req.path)])
                      ELSE Response(200, <<>>)]
      [] req.method = "POST" ->
            [store |-> With(st, FormKey(req.body), FormValue(req.body)),
             resp |-> Response(200, <<>>)]
      [] req.method = "DELETE" ->
            [store |-> Without(st, PathKey(req.path)),
             resp |-> IF PathKey(req.path) \in DOMAIN st
                      THEN Response(204, <<>>)
                      ELSE Response(404, <<>>)]

\* the answer of a store that fails the request
FaultReply == Response(500, <<"e">>)

-----------------------------------------------------------------------------
(* Errors and outcomes of client operations. *)

\* TypeError: Argument `key` is not a string (non-empty)!
ValidationError ==
    [type |-> "TypeError", of |-> "key", key |-> <<>>, status |-> 0, body |-> <<>>]

\* Error: Unable to <of> ... with status `<status>`: <body>
RemoteError(of, key, r) ==
    [type |-> "Error", of |-> of, key |-> key, status |-> r.status, body |-> r.body]

\* the error the constructor throws (Error, SyntaxError or TypeError)
ConfigurationError(type) ==
    [type |-> type, of |-> "constructor", key |-> <<>>, status |-> 0, body |-> <<>>]

\* Error: Unable to transact with Replit Database because of exceed the rate
\* limits and retries!
RateLimitError ==
    [type |-> "Error", of |-> "transaction", key |-> <<>>, status |-> 0, body |-> <<>>]

\* SyntaxError of JSON.parse
ParseError(key, r) ==
    [type |-> "SyntaxError", of |-> "get", key |-> key, status |-> r.status, body |-> r.body]

Outcome(kind, val, list, errs) ==
    [kind |-> kind, val |-> val, list |-> list, num |-> 0, map |-> <<>>, errs |-> errs,
     resp |-> Response(0, <<>>)]

Pending == Outcome("pending", Undefined, <<>>, <<>>)
Resolved(v) == Outcome("ok", v, <<>>, <<>>)
ResolvedList(l) == Outcome("ok", Undefined, l, <<>>)
ResolvedNum(n) == [Outcome("ok", Undefined, <<>>, <<>>) EXCEPT !.num = n]
\* a Response, as #transaction returns it
ResolvedResponse(r) == [Outcome("ok", Undefined, <<>>, <<>>) EXCEPT !.resp = r]
\* a Map, as the sequence of its entries in insertion order
ResolvedMap(m) == [Outcome("ok", Undefined, <<>>, <<>>) EXCEPT !.map = m]
Thrown(e) == Outcome("error", Undefined, <<>>, <<e>>)
\* new AggregateError(errorsStack)
ThrownAggregate(stack) == Outcome("aggregate", Undefined, <<>>, stack)

-----------------------------------------------------------------------------
(* The client's methods, each as the function from what it has read to what *)
(* it does next.                                                            *)

\* get, from the response on
GetResult(key, r) ==
    IF ~ResponseOk(r) THEN Thrown(RemoteError("get", key, r))
    ELSE IF Len(r.body) > 0
         THEN (IF JSONParses(r.body) THEN Resolved(JSONParse(r.body))
               ELSE Thrown(ParseError(key, r)))
         ELSE Resolved(Undefined)

\* has: typeof (await this.get(key)) !== "undefined"
HasResult(key, r) ==
    LET g == GetResult(key, r)
    IN  IF g.kind = "ok"
        THEN Resolved(IF g.val.t # "undefined" THEN True ELSE False)
        ELSE g

\* single-pair set, from the response on
SetResult(key, r) ==
    IF ~ResponseOk(r) THEN Thrown(RemoteError("set", key, r))
    ELSE Resolved(Undefined)

RECURSIVE DecodeAll(_)
DecodeAll(lines) ==
    IF lines = <<>> THEN <<>>
    ELSE <<decodeURIComponent(Head(lines))>> \o DecodeAll(Tail(lines))

\* keys that forgets decodeURIComponent
KeysResultUndecoded(r) ==
    IF ~ResponseOk(r) THEN Thrown(RemoteError("keys", <<>>, r))
    ELSE IF Len(r.body) = 0 THEN ResolvedList(<<>>)
    ELSE ResolvedList(Split(r.body))

\* keys as in the earliest variant, which splits the body whatever its length
KeysResultSplitsEmptyBody(r) ==
    IF ~ResponseOk(r) THEN Thrown(RemoteError("keys", <<>>, r))
    ELSE ResolvedList(DecodeAll(Split(r.body)))

\* keys with a string filter, from the response on
KeysResult(r) ==
    IF ~ResponseOk(r) THEN Thrown(RemoteError("keys", <<>>, r))
    ELSE IF Len(r.body) = 0 THEN ResolvedList(<<>>)
    ELSE ResolvedList(DecodeAll(Split(r.body)))

\* the filters of keys: a string (a prefix), a predicate function, or a regular
\* expression; the predicate is (key) => key.includes(pattern), the regular
\* expression matches the character pattern and has the flag g or not
StringFilter(p) == [kind |-> "string", prefix |-> p, pattern |-> "", global |-> FALSE]
FunctionFilter(c) == [kind |-> "function", prefix |-> <<>>, pattern |-> c, global |-> FALSE]
RegExpFilter(c, g) == [kind |-> "regexp", prefix |-> <<>>, pattern |-> c, global |-> g]

\* the value of the search parameter prefix: (typeof filter === "string") ? filter : ""
PrefixOf(filter) == IF filter.kind = "string" THEN filter.prefix ELSE <<>>

\* RegExp.prototype.test(key) of a regular expression whose lastIndex is
\* lastIndex: with the flag g the search starts at lastIndex, which is left
\* past the match, or at 0 when there is none; without it lastIndex is not used
RegExpTest(filter, lastIndex, key) ==
    LET start == IF filter.global THEN lastIndex ELSE 0
        rest == SubSeq(key, start + 1, Len(key))
        i == IndexOf(rest, {filter.pattern})
        found == i <= Len(rest)
    IN  [ok |-> found,
         lastIndex |-> IF ~filter.global THEN lastIndex
                       ELSE IF found THEN start + i ELSE 0]

\* keys.filter((key) => filter.test(key)), the regular expression's lastIndex
\* being lastIndex at the first key
RECURSIVE FilterByRegExp(_, _, _)
FilterByRegExp(filter, keys, lastIndex) ==
    IF keys = <<>> THEN <<>>
    ELSE LET t == RegExpTest(filter, lastIndex, Head(keys))
         IN  (IF t.ok THEN <<Head(keys)>> ELSE <<>>)
             \o FilterByRegExp(filter, Tail(keys), t.lastIndex)

\* keys.filter(filter) of a predicate function
RECURSIVE FilterByFunction(_, _)
FilterByFunction(filter, keys) ==
    IF keys = <<>> THEN <<>>
    ELSE (IF IndexOf(Head(keys), {filter.pattern}) <= Len(Head(keys))
          THEN <<Head(keys)>> ELSE <<>>)
         \o FilterByFunction(filter, Tail(keys))

\* keys, from the response on: the switch on typeof filter
KeysByResult(filter, r) ==
    LET k == KeysResult(r)
    IN  IF k.kind # "ok" \/ k.list = <<>> THEN k
        ELSE CASE filter.kind = "function" -> ResolvedList(FilterByFunction(filter, k.list))
               [] filter.kind = "string" -> k
               [] OTHER -> ResolvedList(FilterByRegExp(filter, k.list, 0))

\* size: the length of keys()
SizeResult(r) ==
    LET k == KeysResult(r)
    IN  IF k.kind = "ok" THEN ResolvedNum(Len(k.list)) ELSE k

\* #transaction that sends once more than #retry allows
TransactionStepOneMore(time, limit, r) ==
    IF r.status # ExceedRateLimitsStatusCode
    THEN [pc |-> "done", time |-> time, out |-> ResolvedResponse(r)]
    ELSE IF time <= limit THEN [pc |-> "sleep", time |-> time, out |-> Pending]
    ELSE [pc |-> "done", time |-> time + 1, out |-> Thrown(RateLimitError)]

\* #transaction, from the response of the fetch of round `time` on, #retry
\* being limit: the response is returned, or the loop sleeps before the next
\* round (pc "sleep"), or it ends and the error is thrown
TransactionStep(time, limit, r) ==
    IF r.status # ExceedRateLimitsStatusCode
    THEN [pc |-> "done", time |-> time, out |-> ResolvedResponse(r)]
    ELSE IF time < limit THEN [pc |-> "sleep", time |-> time, out |-> Pending]
    ELSE [pc |-> "done", time |-> time + 1, out |-> Thrown(RateLimitError)]

\* the loop of list run from key i to its next await (the get of key idx) or
\* to its end; map holds the entries set so far
ListLoop(keys, i, map) ==
    IF i > Len(keys)
    THEN [pc |-> "done", idx |-> i, map |-> map, out |-> ResolvedMap(map)]
    ELSE IF ~(Len(keys[i]) > 0)
         THEN [pc |-> "done", idx |-> i, map |-> map, out |-> Thrown(ValidationError)]
         ELSE [pc |-> "await", idx |-> i, map |-> map, out |-> Pending]

\* list, from the response to its key listing on
ListListed(r) ==
    LET k == KeysResult(r)
    IN  IF k.kind # "ok"
        THEN [keys |-> <<>>, loop |-> [pc |-> "done", idx |-> 0, map |-> <<>>, out |-> k]]
        ELSE [keys |-> k.list, loop |-> ListLoop(k.list, 1, <<>>)]

\* a list that sets the entry of a key whatever get has resolved to
ListStepKeepsUndefined(keys, i, map, r) ==
    LET g == GetResult(keys[i], r)
    IN  IF g.kind # "ok" THEN [pc |-> "done", idx |-> i, map |-> map, out |-> g]
        ELSE ListLoop(keys, i + 1, Append(map, [key |-> keys[i], val |-> g.val]))

\* list, from the response to the get of key i on
ListStep(keys, i, map, r) ==
    LET g == GetResult(keys[i], r)
    IN  IF g.kind # "ok" THEN [pc |-> "done", idx |-> i, map |-> map, out |-> g]
        ELSE IF g.val.t # "undefined"
             THEN ListLoop(keys, i + 1, Append(map, [key |-> keys[i], val |-> g.val]))
        ELSE ListLoop(keys, i + 1, map)

\* delete that takes 404 for a failure
DeleteOkOnly204(r) == r.status = 204

\* delete that takes every 2xx status for a success
DeleteOkAnySuccess(r) == ResponseOk(r) \/ r.status = 404

\* delete: the statuses that count as success
DeleteOk(r) == r.status \in {204, 404}

\* a catch block that never rethrows
CaughtAlwaysPushes(error, stack, settle) ==
    [throw |-> FALSE, stack |-> Append(stack, error)]

\* a catch block that always rethrows
CaughtAlwaysThrows(error, stack, settle) ==
    [throw |-> TRUE, stack |-> stack]

\* the catch block of a batch loop: rethrow, or push on errorsStack
Caught(error, stack, settle) ==
    IF ~settle THEN [throw |-> TRUE, stack |-> stack]
    ELSE [throw |-> FALSE, stack |-> Append(stack, error)]

\* the errors of a stack, each message once (as print() of the earlier
\* ReplitDatabaseClientErrorStack gives them)
RECURSIVE Deduplicated(_)
Deduplicated(stack) ==
    IF stack = <<>> THEN <<>>
    ELSE LET front == Deduplicated(SubSeq(stack, 1, Len(stack) - 1))
             e == stack[Len(stack)]
         IN  IF \E i \in DOMAIN front : front[i] = e THEN front ELSE Append(front, e)

\* a batch end that throws the deduplicated errors
BatchEndDeduplicated(stack) ==
    IF Len(stack) > 0 THEN ThrownAggregate(Deduplicated(stack)) ELSE Resolved(Undefined)

\* after a batch loop: throw new AggregateError(errorsStack) if it holds an error
BatchEnd(stack) ==
    IF Len(stack) > 0 THEN ThrownAggregate(stack) ELSE Resolved(Undefined)

\* a batch loop that leaves the check of the key to the store
BatchLoopUnvalidated(keys, i, stack, settle) ==
    IF i > Len(keys)
    THEN [pc |-> "done", idx |-> i, stack |-> stack, out |-> BatchEnd(stack)]
    ELSE [pc |-> "await", idx |-> i, stack |-> stack, out |-> Pending]

\* a batch loop that throws the validation error of an empty key whatever
\* allSettled is
BatchLoopStopsAtEmpty(keys, i, stack, settle) ==
    IF i > Len(keys)
    THEN [pc |-> "done", idx |-> i, stack |-> stack, out |-> BatchEnd(stack)]
    ELSE IF ~(Len(keys[i]) > 0)
         THEN [pc |-> "done", idx |-> i, stack |-> stack, out |-> Thrown(ValidationError)]
         ELSE [pc |-> "await", idx |-> i, stack |-> stack, out |-> Pending]

\* a batch loop (delete, table-form set) run from item i to its next await
\* (pc "await": the request of item idx is to be sent) or to its end
RECURSIVE BatchLoop(_, _, _, _)
BatchLoop(keys, i, stack, settle) ==
    IF i > Len(keys)
    THEN [pc |-> "done", idx |-> i, stack |-> stack, out |-> BatchEnd(stack)]
    ELSE IF ~(Len(keys[i]) > 0)
         THEN LET c == Caught(ValidationError, stack, settle)
              IN  IF c.throw
                  THEN [pc |-> "done", idx |-> i, stack |-> stack,
                        out |-> Thrown(ValidationError)]
                  ELSE BatchLoop(keys, i + 1, c.stack, settle)
         ELSE [pc |-> "await", idx |-> i, stack |-> stack, out |-> Pending]

\* a batch loop after item i has failed with error
BatchFailed(keys, i, stack, settle, error) ==
    LET c == Caught(error, stack, settle)
    IN  IF c.throw
        THEN [pc |-> "done", idx |-> i, stack |-> stack, out |-> Thrown(error)]
        ELSE BatchLoop(keys, i + 1, c.stack, settle)

\* delete, from the response to the request of item i on
DeleteStep(keys, i, stack, settle, r) ==
    IF DeleteOk(r) THEN BatchLoop(keys, i + 1, stack, settle)
    ELSE BatchFailed(keys, i, stack, settle, RemoteError("delete", keys[i], r))

\* a table-form set that does not look at the response
SetTableStepUnchecked(keys, i, stack, settle, r) ==
    BatchLoop(keys, i + 1, stack, settle)

\* table-form set, from the response to the request of entry i on
SetTableStep(keys, i, stack, settle, r) ==
    IF SetResult(keys[i], r).kind = "ok" THEN BatchLoop(keys, i + 1, stack, settle)
    ELSE BatchFailed(keys, i, stack, settle, RemoteError("set", keys[i], r))

\* the arguments of delete: a string, or an array of strings
StrItem(k) == [array |-> FALSE, key |-> k, items |-> <<>>]
ArrItem(ks) == [array |-> TRUE, key |-> <<>>, items |-> ks]

\* String(array): the items joined by commas
RECURSIVE JoinComma(_)
JoinComma(ks) ==
    IF ks = <<>> THEN <<>>
    ELSE IF Len(ks) = 1 THEN ks[1]
    ELSE ks[1] \o <<",">> \o JoinComma(Tail(ks))

\* a delete that takes each argument for a key
RECURSIVE FlatNot(_)
FlatNot(args) ==
    IF args = <<>> THEN <<>>
    ELSE (IF Head(args).array THEN <<JoinComma(Head(args).items)>> ELSE <<Head(args).key>>)
         \o FlatNot(Tail(args))

\* keys.flat(Infinity)
RECURSIVE Flat(_)
Flat(args) ==
    IF args = <<>> THEN <<>>
    ELSE (IF Head(args).array THEN Head(args).items ELSE <<Head(args).key>>)
         \o Flat(Tail(args))

\* a delete that sends the requests of all the keys left without awaiting
DeleteIssueAll(endpoint, keys, i) ==
    {DeleteRequest(endpoint, keys[j]) : j \in {j \in i..Len(keys) : Len(keys[j]) > 0}}

\* a delete that sends the request to the current origin with an earlier path
DeleteIssueMixed(endpoint, keys, i) ==
    {DeleteRequest([endpoint EXCEPT !.pathname = EnvUrlA.pathname], keys[i])}

\* the requests a delete sends when its loop reaches the await of item i
DeleteIssue(endpoint, keys, i) == {DeleteRequest(endpoint, keys[i])}

\* a table-form set that sends the requests of all the entries left at once
SetTableIssueAll(endpoint, keys, vals, i) ==
    {SetRequest(endpoint, keys[j], vals[j]) : j \in {j \in i..Len(keys) : Len(keys[j]) > 0}}

\* the requests a table-form set sends when its loop reaches the await of entry i
SetTableIssue(endpoint, keys, vals, i) == {SetRequest(endpoint, keys[i], vals[i])}

-----------------------------------------------------------------------------
(* The state machine.  The caller awaits each operation before it starts    *)
(* the next one; an operation is split at its awaits: Call* runs a method   *)
(* to its first fetch, Serve answers a request, Resume* runs the method     *)
(* from the response to its next fetch or to its end.                       *)

\* the keys a caller puts in a batch of more than one item
BatchKeyInputs == {KA, KB, EmptyText}

\* the batches a caller passes to delete: any single key, or items of BatchKeyInputs
BatchKeys ==
    {<<k>> : k \in KeyInputs} \cup UNION {[1..n -> BatchKeyInputs] : n \in 0..MaxBatch}

\* delete(...keys): the keys as rest arguments
RestArgs(ks) == [i \in DOMAIN ks |-> StrItem(ks[i])]

\* the arrays of keys a caller passes to delete
ArrayKeys == {<<>>, <<KA>>, <<KA, KB>>, <<EmptyText>>}

\* the arguments a caller passes to delete: keys, or one array of keys
DeleteArgs == {RestArgs(ks) : ks \in BatchKeys} \cup {<<ArrItem(ks)>> : ks \in ArrayKeys}

\* the pairs a caller passes to single-pair set: every key with the number,
\* and the keys that start with a with the empty string too
SetInputs ==
    {c \in [key : KeyInputs, val : JSONValues] : c.val = Num1 \/ c.key \in {KA, KQ}}

\* the values of table entries
TableValues == {Num1}

\* the tables a caller passes to set: distinct keys, in insertion order
Tables ==
    {t \in UNION {[1..n -> [key : BatchKeyInputs, val : TableValues]] : n \in 1..MaxBatch} :
        \A i, j \in DOMAIN t : i # j => t[i].key # t[j].key}

\* the prefixes a caller passes to keys
Prefixes == {EmptyText, KA, KQ}

NoPrev == [name |-> "none", key |-> <<>>, val |-> Undefined]

\* new ReplitDatabaseClient(): options left out
NoOptions == [url |-> NoUrl, allSettled |-> "undefined"]

\* an operation at its call
NewOp(name) ==
    [name |-> name, pc |-> "done", phase |-> "", key |-> <<>>, val |-> Undefined,
     filter |-> <<>>, keys |-> <<>>, vals |-> <<>>, idx |-> 0, stack |-> <<>>,
     out |-> Pending, log |-> <<>>, last |-> Response(0, <<>>),
     disturbed |-> FALSE, faulted |-> FALSE, options |-> NoOptions,
     read |-> EnvUnset, faults |-> <<>>, map |-> <<>>, seen |-> <<>>,
     time |-> 0, answers |-> <<>>, args |-> <<>>, by |-> StringFilter(<<>>)]

Idle == op.pc \in {"idle", "done"} /\ inflight = {} /\ responses = {}

\* history: what the finished operation leaves as the last undisturbed write
PrevAfter ==
    IF op.pc = "done" /\ op.name \in {"set", "setTable", "delete", "clear"}
    THEN IF op.out.kind = "ok" /\ ~op.disturbed /\ ~op.faulted
         THEN CASE op.name = "set" -> [name |-> "set", key |-> op.key, val |-> op.val]
                [] op.name = "delete" /\ Len(op.keys) = 1 ->
                       [name |-> "delete", key |-> op.keys[1], val |-> Undefined]
                [] op.name = "clear" -> [name |-> "clear", key |-> <<>>, val |-> Undefined]
                [] OTHER -> NoPrev
         ELSE NoPrev
    ELSE prev

\* the requests in r, in a sequence (r holds at most one in a sequential run)
RECURSIVE SeqOf(_)
SeqOf(r) ==
    IF r = {} THEN <<>>
    ELSE LET x == CHOOSE x \in r : TRUE IN <<x>> \o SeqOf(r \ {x})

\* an operation starts: o is its state after the synchronous part, reqs the
\* requests that part has sent
Start(o, reqs) ==
    /\ Idle
    /\ op' = [o EXCEPT !.log = SeqOf(reqs)]
    /\ inflight' = inflight \cup reqs
    /\ prev' = PrevAfter
    /\ UNCHANGED <<retry, store, url, allSettled, fromEnv, env, timerError, responses, refresh>>

\* an operation goes on after response r: o is its state, reqs what it has sent
Continue(r, o, reqs) ==
    /\ op' = [o EXCEPT !.log = op.log \o SeqOf(reqs), !.last = r]
    /\ responses' = responses \ {r}
    /\ inflight' = inflight \cup reqs
    /\ UNCHANGED <<retry, store, url, allSettled, fromEnv, env, timerError, prev, refresh>>

CallGet(k) ==
    LET o == [NewOp("get") EXCEPT !.key = k]
    IN  IF ~(Len(k) > 0)
        THEN Start([o EXCEPT !.out = Thrown(ValidationError)], {})
        ELSE Start([o EXCEPT !.pc = "await"], {GetRequest(url, k)})

ResumeGet(r) ==
    /\ op.name = "get" /\ op.pc = "await"
    /\ Continue(r, [op EXCEPT !.pc = "done", !.out = GetResult(op.key, r)], {})

CallHas(k) ==
    LET o == [NewOp("has") EXCEPT !.key = k]
    IN  IF ~(Len(k) > 0)
        THEN Start([o EXCEPT !.out = Thrown(ValidationError)], {})
        ELSE Start([o EXCEPT !.pc = "await"], {GetRequest(url, k)})

ResumeHas(r) ==
    /\ op.name = "has" /\ op.pc = "await"
    /\ Continue(r, [op EXCEPT !.pc = "done", !.out = HasResult(op.key, r)], {})

CallSet(k, v) ==
    LET o == [NewOp("set") EXCEPT !.key = k, !.val = v]
    IN  IF ~(Len(k) > 0)
        THEN Start([o EXCEPT !.out = Thrown(ValidationError)], {})
        ELSE Start([o EXCEPT !.pc = "await"], {SetRequest(url, k, v)})

ResumeSet(r) ==
    /\ op.name = "set" /\ op.pc = "await"
    /\ Continue(r, [op EXCEPT !.pc = "done", !.out = SetResult(op.key, r)], {})

\* the state of a batch operation o after its loop has run to b
Looped(o, b) == [o EXCEPT !.pc = b.pc, !.idx = b.idx, !.stack = b.stack, !.out = b.out]

CallDelete(args) ==
    LET ks == Flat(args)
        b == BatchLoop(ks, 1, <<>>, allSettled)
        o == Looped([NewOp("delete") EXCEPT !.keys = ks, !.args = args], b)
    IN  Start(o, IF b.pc = "await" THEN DeleteIssue(url, ks, b.idx) ELSE {})

ResumeDelete(r) ==
    /\ op.name = "delete" /\ op.pc = "await"
    /\ LET b == DeleteStep(op.keys, op.idx, op.stack, allSettled, r)
       IN  Continue(r, Looped(op, b),
                    IF b.pc = "await" THEN DeleteIssue(url, op.keys, b.idx) ELSE {})

CallSetTable(t) ==
    LET ks == [i \in DOMAIN t |-> t[i].key]
        vs == [i \in DOMAIN t |-> t[i].val]
        b == BatchLoop(ks, 1, <<>>, allSettled)
        o == Looped([NewOp("setTable") EXCEPT !.keys = ks, !.vals = vs], b)
    IN  Start(o, IF b.pc = "await" THEN SetTableIssue(url, ks, vs, b.idx) ELSE {})

ResumeSetTable(r) ==
    /\ op.name = "setTable" /\ op.pc = "await"
    /\ LET b == SetTableStep(op.keys, op.idx, op.stack, allSettled, r)
       IN  Continue(r, Looped(op, b),
                    IF b.pc = "await"
                    THEN SetTableIssue(url, op.keys, op.vals, b.idx) ELSE {})

\* a keys that sets the search parameters on #url itself, not on a copy
CallKeysInPlace(p) ==
    /\ Idle
    /\ op' = [NewOp("keys") EXCEPT !.pc = "await", !.filter = p,
                                   !.log = <<KeysRequest(url, p)>>]
    /\ inflight' = inflight \cup {KeysRequest(url, p)}
    /\ url' = [url EXCEPT !.search = KeysRequest(url, p).query]
    /\ prev' = PrevAfter
    /\ UNCHANGED <<retry, store, allSettled, fromEnv, env, timerError, responses, refresh>>

\* keys: the request is built on new URL(this.#url), a copy of the endpoint
CallKeys(p) ==
    Start([NewOp("keys") EXCEPT !.pc = "await", !.filter = p], {KeysRequest(url, p)})

ResumeKeys(r) ==
    /\ op.name = "keys" /\ op.pc = "await"
    /\ Continue(r, [op EXCEPT !.pc = "done", !.out = KeysResult(r)], {})

\* the predicate functions and regular expressions a caller passes to keys
Filters == {FunctionFilter("?"), RegExpFilter("a", FALSE), RegExpFilter("a", TRUE)}

\* keys(filter) with a predicate function or a regular expression
CallKeysBy(f) ==
    Start([NewOp("keysBy") EXCEPT !.pc = "await", !.by = f],
          {KeysRequest(url, PrefixOf(f))})

ResumeKeysBy(r) ==
    /\ op.name = "keysBy" /\ op.pc = "await"
    /\ Continue(r, [op EXCEPT !.pc = "done", !.out = KeysByResult(op.by, r)], {})

CallSize ==
    Start([NewOp("size") EXCEPT !.pc = "await"], {KeysRequest(url, <<>>)})

ResumeSize(r) ==
    /\ op.name = "size" /\ op.pc = "await"
    /\ Continue(r, [op EXCEPT !.pc = "done", !.out = SizeResult(r)], {})

\* clear: this.delete(await this.keys())
CallClear ==
    Start([NewOp("clear") EXCEPT !.pc = "await", !.phase = "keys"],
          {KeysRequest(url, <<>>)})

\* clear, from the response to its key listing on
ClearListed(r, settle) ==
    LET k == KeysResult(r)
    IN  IF k.kind # "ok"
        THEN [keys |-> <<>>, loop |-> [pc |-> "done", idx |-> 0, stack |-> <<>>, out |-> k]]
        ELSE [keys |-> k.list, loop |-> BatchLoop(k.list, 1, <<>>, settle)]

ResumeClearKeys(r) ==
    /\ op.name = "clear" /\ op.pc = "await" /\ op.phase = "keys"
    /\ LET c == ClearListed(r, allSettled)
       IN  Continue(r, Looped([op EXCEPT !.phase = "delete", !.keys = c.keys], c.loop),
                    IF c.loop.pc = "await"
                    THEN DeleteIssue(url, c.keys, c.loop.idx) ELSE {})

ResumeClearDelete(r) ==
    /\ op.name = "clear" /\ op.pc = "await" /\ op.phase = "delete"
    /\ LET b == DeleteStep(op.keys, op.idx, op.stack, allSettled, r)
       IN  Continue(r, Looped(op, b),
                    IF b.pc = "await" THEN DeleteIssue(url, op.keys, b.idx) ELSE {})

\* history: the statuses the store has answered to the fetches of #transaction
Answered(r) ==
    IF op.name = "transaction" THEN Append(op.answers, r.status) ELSE op.answers

\* history: what the store holds for the key list is reading, when it answers
Seen ==
    IF op.name = "list" /\ op.phase = "get"
    THEN LET k == op.keys[op.idx]
         IN  Append(op.seen, [present |-> k \in DOMAIN store,
                              raw |-> IF k \in DOMAIN store THEN store[k] ELSE <<>>])
    ELSE op.seen

\* list: for each key of await this.keys(keysFilter), await this.get(key)
CallList(p) ==
    Start([NewOp("list") EXCEPT !.pc = "await", !.phase = "keys", !.filter = p],
          {KeysRequest(url, p)})

\* the state of list after its loop has run to b
ListLooped(o, b) == [o EXCEPT !.pc = b.pc, !.idx = b.idx, !.map = b.map, !.out = b.out]

ResumeListKeys(r) ==
    /\ op.name = "list" /\ op.pc = "await" /\ op.phase = "keys"
    /\ LET c == ListListed(r)
       IN  Continue(r, ListLooped([op EXCEPT !.phase = "get", !.keys = c.keys], c.loop),
                    IF c.loop.pc = "await"
                    THEN {GetRequest(url, c.keys[c.loop.idx])} ELSE {})

ResumeListGet(r) ==
    /\ op.name = "list" /\ op.pc = "await" /\ op.phase = "get"
    /\ LET b == ListStep(op.keys, op.idx, op.map, r)
       IN  Continue(r, ListLooped(op, b),
                    IF b.pc = "await" THEN {GetRequest(url, op.keys[b.idx])} ELSE {})

\* the store answers a request
Serve(req) ==
    /\ req \in inflight
    /\ store' = ServerReply(store, req).store
    /\ inflight' = inflight \ {req}
    /\ responses' = responses \cup {ServerReply(store, req).resp}
    /\ op' = [op EXCEPT !.seen = Seen, !.answers = Answered(ServerReply(store, req).resp)]
    /\ UNCHANGED <<retry, url, allSettled, fromEnv, env, timerError, prev, refresh>>

\* the store fails a request
ServeFault(req) ==
    /\ req \in inflight
    /\ inflight' = inflight \ {req}
    /\ responses' = responses \cup {FaultReply}
    /\ op' = [op EXCEPT !.faulted = TRUE, !.faults = Append(@, op.idx),
                         !.answers = Answered(FaultReply)]
    /\ UNCHANGED <<retry, store, url, allSettled, fromEnv, env, timerError, prev, refresh>>

\* the store refuses a request for the rate limit
RateLimitReply == Response(ExceedRateLimitsStatusCode, <<>>)

ServeRateLimited(req) ==
    /\ req \in inflight
    /\ inflight' = inflight \ {req}
    /\ responses' = responses \cup {RateLimitReply}
    /\ op' = [op EXCEPT !.answers = Answered(RateLimitReply)]
    /\ UNCHANGED <<retry, store, url, allSettled, fromEnv, env, timerError, prev, refresh>>

\* the answers to a DELETE that are not the store's own 204 and 404
StatusReplies == {Response(s, b) : s \in {200, 202, 500}, b \in {<<>>, <<"e">>}}

\* the store answers a DELETE with another status, the entry deleted or not,
\* once in an operation
ServeStatus(req, r) ==
    /\ req \in inflight
    /\ req.method = "DELETE"
    /\ ~op.faulted
    /\ store' \in {store, ServerReply(store, req).store}
    /\ inflight' = inflight \ {req}
    /\ responses' = responses \cup {r}
    /\ op' = [op EXCEPT !.faulted = TRUE, !.faults = Append(@, op.idx)]
    /\ UNCHANGED <<retry, url, allSettled, fromEnv, env, timerError, prev, refresh>>

\* the requests the variants' methods pass to #transaction
TransactionRequests(endpoint) ==
    UNION {{GetRequest(endpoint, k), DeleteRequest(endpoint, k),
            SetRequest(endpoint, k, Num1)} : k \in {KA, KB}}

\* #transaction(...fetchParameters): the first fetch
CallTransaction(req) ==
    Start([NewOp("transaction") EXCEPT !.pc = "await"], {req})

\* #transaction after the response of a fetch
ResumeTransaction(r) ==
    /\ op.name = "transaction" /\ op.pc = "await"
    /\ LET t == TransactionStep(op.time, retry, r)
       IN  Continue(r, [op EXCEPT !.pc = t.pc, !.time = t.time, !.out = t.out], {})

\* #transaction after the 5000 ms of setTimeout: the next round's fetch
TransactionWake ==
    /\ op.name = "transaction" /\ op.pc = "sleep"
    /\ op' = [op EXCEPT !.pc = "await", !.time = @ + 1, !.log = Append(@, op.log[1])]
    /\ inflight' = inflight \cup {op.log[1]}
    /\ UNCHANGED <<retry, store, url, allSettled, fromEnv, env, timerError, responses, prev,
                   refresh>>

\* another client of the same store writes or deletes an entry while an
\* operation of this client awaits (a write between two operations has the
\* effect of the same write at the start of the second one's await)
OtherWrite(k, v) ==
    /\ op.pc = "await"
    /\ store' = With(store, k, JSONStringify(v))
    /\ store' # store
    /\ op' = [op EXCEPT !.disturbed = TRUE]
    /\ prev' = NoPrev
    /\ UNCHANGED <<retry, url, allSettled, fromEnv, env, timerError, inflight, responses, refresh>>

OtherDelete(k) ==
    /\ op.pc = "await"
    /\ k \in DOMAIN store
    /\ store' = Without(store, k)
    /\ op' = [op EXCEPT !.disturbed = TRUE]
    /\ prev' = NoPrev
    /\ UNCHANGED <<retry, url, allSettled, fromEnv, env, timerError, inflight, responses, refresh>>

\* the environment variable REPLIT_DB_URL changes
SetEnv(e) ==
    /\ fromEnv
    /\ e # env
    /\ env' = e
    /\ UNCHANGED <<retry, store, url, allSettled, fromEnv, timerError, op, inflight, responses, prev,
                   refresh>>

\* a callback that cancels its timer when the variable holds no valid URL
RefreshStopsOnFailure ==
    /\ fromEnv
    /\ url' = RefreshCallback(url, env).url
    /\ timerError' = (timerError \/ RefreshCallback(url, env).threw)
    /\ refresh' = [tick |-> ~refresh.tick, failed |-> ~NewURL(EnvGetOrEmpty(env)).ok]
    /\ fromEnv' = NewURL(EnvGetOrEmpty(env)).ok
    /\ UNCHANGED <<retry, store, allSettled, env, op, inflight, responses, prev>>

\* the setInterval callback fires
Refresh ==
    /\ fromEnv
    /\ url' = RefreshCallback(url, env).url
    /\ timerError' = (timerError \/ RefreshCallback(url, env).threw)
    /\ refresh' = [tick |-> ~refresh.tick, failed |-> ~NewURL(EnvGetOrEmpty(env)).ok]
    /\ UNCHANGED <<retry, store, allSettled, fromEnv, env, op, inflight, responses, prev>>

\* the state new ReplitDatabaseClient(options) leaves when REPLIT_DB_URL is e:
\* a client, or (pc "failed") the error thrown and no client
Construct(options, e) ==
    LET c == Constructor(options, e)
    IN  /\ store = EmptyStore
        /\ url = c.url
        /\ allSettled = c.allSettled
        /\ fromEnv = c.timer
        /\ env = e
        /\ timerError = FALSE
        /\ op = [NewOp("constructor") EXCEPT
                    !.pc = IF c.ok THEN "idle" ELSE "failed",
                    !.out = IF c.ok THEN Resolved(Undefined)
                            ELSE Thrown(ConfigurationError(c.error)),
                    !.options = options,
                    !.read = e]
        /\ inflight = {}
        /\ responses = {}
        /\ prev = NoPrev
        /\ refresh = [tick |-> FALSE, failed |-> FALSE]

\* a client has been constructed
Init ==
    /\ \E options \in OptionInputs, e \in EnvValues :
          Constructor(options, e).ok /\ Construct(options, e)
    /\ retry = DefaultRetry

\* a construction has been attempted
InitConstruct ==
    /\ \E options \in ConstructorInputs, e \in EnvValues : Construct(options, e)
    /\ retry = DefaultRetry

\* the operations on the store
NextData ==
    \/ \E k \in KeyInputs : CallGet(k)
    \/ \E r \in responses : ResumeGet(r)
    \/ \E k \in KeyInputs : CallHas(k)
    \/ \E r \in responses : ResumeHas(r)
    \/ \E c \in SetInputs : CallSet(c.key, c.val)
    \/ \E r \in responses : ResumeSet(r)
    \/ \E args \in DeleteArgs : CallDelete(args)
    \/ \E r \in responses : ResumeDelete(r)
    \/ \E t \in Tables : CallSetTable(t)
    \/ \E r \in responses : ResumeSetTable(r)
    \/ \E p \in Prefixes : CallKeys(p)
    \/ \E r \in responses : ResumeKeys(r)
    \/ \E f \in Filters : CallKeysBy(f)
    \/ \E r \in responses : ResumeKeysBy(r)
    \/ CallSize
    \/ \E r \in responses : ResumeSize(r)
    \/ CallClear
    \/ \E r \in responses : ResumeClearKeys(r)
    \/ \E r \in responses : ResumeClearDelete(r)
    \/ \E p \in Prefixes : CallList(p)
    \/ \E r \in responses : ResumeListKeys(r)
    \/ \E r \in responses : ResumeListGet(r)
    \/ \E req \in inflight : Serve(req)
    \/ \E req \in inflight : ServeFault(req)
    \/ \E k \in Keys, v \in TableValues : OtherWrite(k, v)
    \/ \E k \in Keys : OtherDelete(k)

\* a client constructed with an explicit url: no timer, the environment
\* variable is never read again
InitExplicit == Init /\ ~fromEnv /\ env = EnvUnset

Spec == InitExplicit /\ [][NextData]_vars

\* a client constructed from the environment variable: the timer, the
\* variable's changes, and the operations that send one request per item
InitFromEnv == Init /\ fromEnv

NextRefresh ==
    \/ \E e \in EnvValues : SetEnv(e)
    \/ Refresh
    \/ \E k \in KeyInputs : CallGet(k)
    \/ \E r \in responses : ResumeGet(r)
    \/ \E ks \in BatchKeys : CallDelete(RestArgs(ks))
    \/ \E r \in responses : ResumeDelete(r)
    \/ \E req \in inflight : Serve(req)

SpecRefresh == InitFromEnv /\ [][NextRefresh]_vars

\* a client of the variants with #transaction, constructed with an explicit url
InitTransaction ==
    /\ \E options \in OptionInputs :
          /\ options.url.given
          /\ Constructor(options, EnvUnset).ok
          /\ Construct(options, EnvUnset)
    /\ \E option \in RetryOptions : retry = RetryOf(option)

NextTransaction ==
    \/ \E req \in TransactionRequests(url) : CallTransaction(req)
    \/ \E r \in responses : ResumeTransaction(r)
    \/ TransactionWake
    \/ \E req \in inflight : Serve(req)
    \/ \E req \in inflight : ServeRateLimited(req)
    \/ \E req \in inflight : ServeFault(req)
    \/ \E k \in Keys, v \in TableValues : OtherWrite(k, v)
    \/ \E k \in Keys : OtherDelete(k)

SpecTransaction == InitTransaction /\ [][NextTransaction]_vars

\* every construction, failed ones included, and what a client does after it
SpecConstruct == InitConstruct /\ [][NextRefresh]_vars

\* a client with an explicit url that sets and deletes, on a store that may
\* answer a DELETE with any status
NextStatus ==
    \/ \E c \in SetInputs : CallSet(c.key, c.val)
    \/ \E r \in responses : ResumeSet(r)
    \/ \E args \in DeleteArgs : CallDelete(args)
    \/ \E r \in responses : ResumeDelete(r)
    \/ \E req \in inflight : Serve(req)
    \/ \E req \in inflight, r \in StatusReplies : ServeStatus(req, r)

SpecStatus == InitExplicit /\ [][NextStatus]_vars

\* a client of either construction, its operations, failing requests, and the
\* timer, whose callback the event loop runs again and again once set
NextTimer ==
    \/ \E e \in EnvValues : SetEnv(e)
    \/ Refresh
    \/ \E k \in KeyInputs : CallGet(k)
    \/ \E r \in responses : ResumeGet(r)
    \/ \E k \in KeyInputs : CallDelete(<<StrItem(k)>>)
    \/ \E r \in responses : ResumeDelete(r)
    \/ \E req \in inflight : Serve(req)
    \/ \E req \in inflight : ServeFault(req)

SpecTimer == Init /\ [][NextTimer]_vars /\ WF_vars(Refresh)

-----------------------------------------------------------------------------
(* Properties. *)

\* the operation has finished, every request of it was answered by the store
\* itself, and no other client has written during it
Undisturbed == op.pc = "done" /\ ~op.faulted /\ ~op.disturbed

\* a key with no character that ends the path of a URL
PlainKey(k) == IndexOf(k, {"?", "#", "%", "/"}) > Len(k)

\* C1: set(k, v) that completes without error followed by get(k), with no
\* other writer in between, returns a value equal to v, for every non-empty
\* key k and every JSON value v.
SetThenGetReturnsValue ==
    (op.name = "get" /\ Undisturbed /\ prev.name = "set" /\ prev.key = op.key)
        => op.out = Resolved(prev.val)

\* the same for the keys that hold no URL-reserved character
SetThenGetReturnsValuePlainKey ==
    (op.name = "get" /\ Undisturbed /\ prev.name = "set" /\ prev.key = op.key
     /\ PlainKey(op.key))
        => op.out = Resolved(prev.val)

\* C2: get(k) on a key that is not in the store (never set, or set and then
\* deleted) resolves to undefined and raises no error.
GetAbsentResolvesUndefined ==
    (op.name = "get" /\ Undisturbed /\ Len(op.key) > 0 /\ op.key \notin DOMAIN store)
        => op.out = Resolved(Undefined)

\* the same for the keys that hold no URL-reserved character
GetAbsentResolvesUndefinedPlainKey ==
    (op.name = "get" /\ Undisturbed /\ Len(op.key) > 0 /\ op.key \notin DOMAIN store
     /\ PlainKey(op.key))
        => op.out = Resolved(Undefined)

\* the DELETE requests of the non-empty keys of a batch, in the batch's order
RECURSIVE DeletesOf(_, _)
DeletesOf(endpoint, keys) ==
    IF keys = <<>> THEN <<>>
    ELSE (IF Len(Head(keys)) > 0 THEN <<DeleteRequest(endpoint, Head(keys))>> ELSE <<>>)
         \o DeletesOf(endpoint, Tail(keys))

\* the POST requests of the entries with a non-empty key, in the table's order
RECURSIVE SetsOf(_, _, _)
SetsOf(endpoint, keys, vals) ==
    IF keys = <<>> THEN <<>>
    ELSE (IF Len(Head(keys)) > 0
          THEN <<SetRequest(endpoint, Head(keys), Head(vals))>> ELSE <<>>)
         \o SetsOf(endpoint, Tail(keys), Tail(vals))

\* s is an initial part of t
IsInitial(s, t) == Len(s) <= Len(t) /\ SubSeq(t, 1, Len(s)) = s

\* C3: with allSettled = false, a batch delete whose key at position i fails
\* stops at once: the requests sent are those of the keys up to i and of no
\* later key, and the error raised is the error of key i itself, not wrapped.
FailFastDeleteStopsAtFirstFailure ==
    (op.name = "delete" /\ ~allSettled) =>
        /\ op.stack = <<>>
        /\ op.out.kind \in {"pending", "ok", "error"}
        /\ (op.faulted /\ inflight = {} /\ responses = {}) =>
               (op.pc = "done" /\ op.out.kind = "error")
        /\ (op.pc = "done" /\ op.out.kind = "error") =>
               /\ op.idx \in 1..Len(op.keys)
               /\ op.log = DeletesOf(url, SubSeq(op.keys, 1, op.idx))
               /\ \A j \in 1..(op.idx - 1) : Len(op.keys[j]) > 0
               /\ op.out = IF Len(op.keys[op.idx]) > 0
                           THEN Thrown(RemoteError("delete", op.keys[op.idx], FaultReply))
                           ELSE Thrown(ValidationError)

\* a fail-fast delete of two keys has failed at the first and has sent nothing
\* for the second
FailFastDeleteWitness ==
    /\ op.name = "delete" /\ ~allSettled /\ op.pc = "done"
    /\ op.keys = <<KA, KB>> /\ op.idx = 1 /\ op.faulted
    /\ op.out.kind = "error" /\ Len(op.log) = 1

\* TRUE iff some key of the batch is empty
HasEmptyKey(keys) == \E i \in DOMAIN keys : Len(keys[i]) = 0

\* C4: with allSettled = true, a batch delete attempts every key whatever
\* failed before, raises nothing before the last key has been attempted, and
\* then raises one aggregate error iff some key failed.
SettleAllDeleteAttemptsEveryKey ==
    (op.name = "delete" /\ allSettled) =>
        /\ op.out.kind \in {"pending", "ok", "aggregate"}
        /\ IsInitial(op.log, DeletesOf(url, op.keys))
        /\ op.pc # "done" => op.out = Pending
        /\ op.pc = "done" =>
               /\ op.idx = Len(op.keys) + 1
               /\ op.log = DeletesOf(url, op.keys)
               /\ (op.out.kind = "aggregate") <=> (op.faulted \/ HasEmptyKey(op.keys))
               /\ op.out.kind = "aggregate" => op.out = ThrownAggregate(op.stack)
               /\ op.out.kind = "ok" => op.out = Resolved(Undefined)

\* a settle-all delete of two keys has failed at the first, has still sent the
\* request of the second, and has raised one aggregate error
SettleAllDeleteWitness ==
    /\ op.name = "delete" /\ allSettled /\ op.pc = "done"
    /\ op.keys = <<KA, KB>> /\ Len(op.log) = 2
    /\ op.out.kind = "aggregate" /\ Len(op.out.errs) = 2

\* C5: delete(k) on a key that is absent from the store succeeds, so delete is
\* idempotent: delete(k) after delete(k) raises no error and leaves the store
\* as the first delete left it.
DeleteIsIdempotent ==
    /\ [](  (op.name = "delete" /\ Undisturbed /\ Len(op.keys) = 1 /\ Len(op.keys[1]) > 0)
               => op.out = Resolved(Undefined)  )
    /\ [][ (op.name = "delete" /\ prev.name = "delete" /\ op.keys = <<prev.key>>
            /\ ~op'.disturbed)
               => store' = store ]_vars

\* delete(a) has succeeded after delete(a), on the answer 404
DeleteTwiceWitness ==
    /\ op.name = "delete" /\ Undisturbed /\ op.keys = <<KA>>
    /\ prev.name = "delete" /\ prev.key = KA
    /\ op.out = Resolved(Undefined) /\ op.last.status = 404

\* the keys in a list
ListedSet(list) == {list[i] : i \in DOMAIN list}

\* C6: keys(p) returns exactly the keys of the store that start with p (all
\* of them when p is empty): none missing, none added, none twice.
KeysReturnsKeysWithPrefix ==
    (op.name = "keys" /\ Undisturbed) =>
        /\ op.out.kind = "ok"
        /\ \A i, j \in DOMAIN op.out.list : i # j => op.out.list[i] # op.out.list[j]
        /\ ListedSet(op.out.list) = {k \in DOMAIN store : IsPrefix(op.filter, k)}

\* keys(a) has returned the two keys that start with a, and not key b, which
\* the store holds too
KeysWithPrefixWitness ==
    /\ op.name = "keys" /\ Undisturbed /\ op.filter = KA
    /\ op.out.list = <<KA, KQ>> /\ KB \in DOMAIN store

\* C7: after clear() has completed without error, with no other writer, size
\* resolves to 0.
ClearThenSizeIsZero ==
    (op.name = "size" /\ Undisturbed /\ prev.name = "clear") => op.out = ResolvedNum(0)

\* after such a clear, no key without a URL-reserved character is left
ClearRemovesPlainKeys ==
    (op.name = "clear" /\ Undisturbed /\ op.out.kind = "ok") =>
        \A k \in DOMAIN store : ~PlainKey(k)

\* C8: set(k, "") followed by get(k) returns the empty string, a present
\* value: get does not resolve to undefined, and has(k) is true.
EmptyStringIsPresent ==
    (op.name \in {"get", "has"} /\ Undisturbed /\ prev.name = "set"
     /\ prev.key = op.key /\ prev.val = Str(<<>>))
        => op.out = IF op.name = "get" THEN Resolved(Str(<<>>)) ELSE Resolved(True)

\* the same for the keys that hold no URL-reserved character
EmptyStringIsPresentPlainKey ==
    (op.name \in {"get", "has"} /\ Undisturbed /\ prev.name = "set"
     /\ prev.key = op.key /\ prev.val = Str(<<>>) /\ PlainKey(op.key))
        => op.out = IF op.name = "get" THEN Resolved(Str(<<>>)) ELSE Resolved(True)

\* requests sent and not yet consumed by the client
Outstanding == Cardinality(inflight) + Cardinality(responses)

\* C9: a batch operation (multi-key delete, table-form set, clear) has at most
\* one request outstanding at any time, sends the request of an item only
\* after the one before it has been answered, and takes the items in order.
BatchSendsOneRequestAtATime ==
    (op.name \in {"delete", "setTable", "clear"}) =>
        /\ Outstanding <= 1
        /\ (op.pc = "await") <=> (Outstanding = 1)
        /\ inflight \subseteq {op.log[i] : i \in {Len(op.log)} \ {0}}
        /\ op.name = "delete" => IsInitial(op.log, DeletesOf(url, op.keys))
        /\ op.name = "setTable" => IsInitial(op.log, SetsOf(url, op.keys, op.vals))
        /\ op.name = "clear" =>
               /\ op.log[1] = KeysRequest(url, <<>>)
               /\ IsInitial(Tail(op.log), DeletesOf(url, op.keys))

\* a delete of two keys awaits the answer to the request of the second key,
\* the only one in flight
BatchSecondRequestWitness ==
    /\ op.name = "delete" /\ op.pc = "await" /\ op.keys = <<KA, KB>>
    /\ op.idx = 2 /\ inflight = {DeleteRequest(url, KB)} /\ responses = {}

\* C10: each refresh of a client built from the environment variable either
\* replaces the endpoint by the valid URL read, or, the variable being unset
\* or no valid URL, leaves the endpoint as it was; no refresh lets an error
\* escape, and the endpoint is a valid URL in every state.
RefreshReplacesOrKeepsEndpoint ==
    /\ [](~timerError /\ url.protocol \in {"http:", "https:"} /\ url.hostname # "")
    /\ [][ (refresh'.tick # refresh.tick) =>
               url' = IF EnvGetOrEmpty(env).valid
                      THEN NewURL(EnvGetOrEmpty(env)).url
                      ELSE url ]_vars

\* a refresh has read a text that is no URL, and the endpoint is the one the
\* constructor had read
RefreshFailedWitness ==
    /\ refresh.tick /\ refresh.failed
    /\ env = EnvSet(NotAUrl) /\ url = NewURL(EnvUrlB).url

\* a construction with options.url given
GivenUrlCase == op.name = "constructor" /\ op.options.url.given

\* C11: constructing a client with an explicit url succeeds only if the
\* url's protocol is http or https and its hostname is kv.replit.com;
\* otherwise the constructor throws, and no client and no refresh timer exist.
ExplicitUrlIsValidated ==
    GivenUrlCase =>
        LET text == op.options.url.text
            good == /\ text.valid
                    /\ text.protocol \in {"http:", "https:"}
                    /\ text.hostname = "kv.replit.com"
        IN  /\ (op.pc = "idle") <=> good
            /\ ~fromEnv
            /\ ~good =>
                   /\ op.pc = "failed"
                   /\ op.out.kind = "error"
                   /\ op.out.errs[1].of = "constructor"
                   /\ ~ENABLED NextRefresh
                   /\ ~ENABLED NextData

\* a construction with a url of another host has failed
ExplicitUrlRejectedWitness ==
    /\ GivenUrlCase /\ op.options.url.text = GivenHost
    /\ op.pc = "failed" /\ op.out = Thrown(ConfigurationError("SyntaxError"))

\* C12: constructing a client without url throws when REPLIT_DB_URL is unset
\* or is no valid URL, and otherwise succeeds with the endpoint equal to the
\* variable's value.
EnvUrlIsRequired ==
    /\ (op.name = "constructor" /\ ~op.options.url.given /\ op.pc = "idle") =>
           url = [protocol |-> env.text.protocol, hostname |-> env.text.hostname,
                  pathname |-> env.text.pathname, search |-> env.text.search,
                  hash |-> env.text.hash]
    /\ []( (op.name = "constructor" /\ ~op.options.url.given) =>
               /\ (op.pc = "idle") <=> (op.read.defined /\ op.read.text.valid)
               /\ op.pc # "idle" =>
                      /\ op.pc = "failed"
                      /\ op.out = Thrown(ConfigurationError("Error"))
                      /\ ~fromEnv )

\* a construction without url has failed on an unset variable
EnvUnsetRejectedWitness ==
    /\ op.name = "constructor" /\ ~op.options.url.given
    /\ op.read = EnvUnset /\ op.pc = "failed"

\* C13: table-form set takes the entries in the table's order, one single-pair
\* set (one POST) per entry, under the policy of batch delete: with allSettled
\* false it stops at the first failing entry and raises that entry's error,
\* no later entry being sent; with allSettled true it attempts every entry and
\* raises one aggregate error at the end iff some entry failed.
TableSetFollowsBatchPolicy ==
    (op.name = "setTable") =>
        /\ IsInitial(op.log, SetsOf(url, op.keys, op.vals))
        /\ ~allSettled =>
               /\ op.stack = <<>>
               /\ op.out.kind \in {"pending", "ok", "error"}
               /\ (op.faulted /\ inflight = {} /\ responses = {}) =>
                      (op.pc = "done" /\ op.out.kind = "error")
               /\ (op.pc = "done" /\ op.out.kind = "ok") =>
                      op.log = SetsOf(url, op.keys, op.vals)
               /\ (op.pc = "done" /\ op.out.kind = "error") =>
                      /\ op.idx \in 1..Len(op.keys)
                      /\ op.log = SetsOf(url, SubSeq(op.keys, 1, op.idx),
                                         SubSeq(op.vals, 1, op.idx))
                      /\ \A j \in 1..(op.idx - 1) : Len(op.keys[j]) > 0
                      /\ op.out = IF Len(op.keys[op.idx]) > 0
                                  THEN Thrown(RemoteError("set", op.keys[op.idx], FaultReply))
                                  ELSE Thrown(ValidationError)
        /\ allSettled =>
               /\ op.out.kind \in {"pending", "ok", "aggregate"}
               /\ op.pc # "done" => op.out = Pending
               /\ op.pc = "done" =>
                      /\ op.idx = Len(op.keys) + 1
                      /\ op.log = SetsOf(url, op.keys, op.vals)
                      /\ (op.out.kind = "aggregate") <=> (op.faulted \/ HasEmptyKey(op.keys))
                      /\ op.out.kind = "aggregate" => op.out = ThrownAggregate(op.stack)
                      /\ op.out.kind = "ok" => op.out = Resolved(Undefined)

\* a fail-fast table-form set of two entries has failed at the first and has
\* sent nothing for the second
TableSetFailFastWitness ==
    /\ op.name = "setTable" /\ ~allSettled /\ op.pc = "done"
    /\ op.keys = <<KA, KB>> /\ op.idx = 1 /\ op.faulted
    /\ op.out.kind = "error" /\ Len(op.log) = 1 /\ store = EmptyStore

\* the errors of the items of a batch that failed, in the items' order: an
\* empty key fails its validation, a key in faults got a failing answer
RECURSIVE FailuresOf(_, _, _, _)
FailuresOf(of, keys, faults, i) ==
    IF i > Len(keys) THEN <<>>
    ELSE (IF Len(keys[i]) = 0 THEN <<ValidationError>>
          ELSE IF \E j \in DOMAIN faults : faults[j] = i
               THEN <<RemoteError(of, keys[i], FaultReply)>>
          ELSE <<>>)
         \o FailuresOf(of, keys, faults, i + 1)

\* a settle-all batch has raised its aggregate error
AggregateRaised ==
    /\ op.name \in {"delete", "setTable", "clear"} /\ allSettled
    /\ op.pc = "done" /\ op.out.kind = "aggregate"

\* the kind of request the items of the batch send
BatchVerb == IF op.name = "setTable" THEN "set" ELSE "delete"

MapKeys(map) == [i \in DOMAIN map |-> map[i].key]

\* the listed keys that the store held when list read them, in listing order
RECURSIVE KeysSeen(_, _, _)
KeysSeen(keys, seen, i) ==
    IF i > Len(keys) \/ i > Len(seen) THEN <<>>
    ELSE (IF seen[i].present THEN <<keys[i]>> ELSE <<>>) \o KeysSeen(keys, seen, i + 1)

\* list has finished and every request of it was answered by the store itself
ListAnswered == op.name = "list" /\ op.pc = "done" /\ ~op.faulted

\* C15: list resolves even when a key returned by the key listing is deleted
\* by another client before list fetches its value: that key is omitted from
\* the result, and the other listed keys are still returned.
ListOmitsDeletedKeys ==
    ListAnswered =>
        /\ op.out.kind = "ok"
        /\ Len(op.seen) = Len(op.keys)
        /\ MapKeys(op.out.map) = KeysSeen(op.keys, op.seen, 1)

\* the same when no listed key holds a URL-reserved character
ListOmitsDeletedPlainKeys ==
    (ListAnswered /\ \A i \in DOMAIN op.keys : PlainKey(op.keys[i])) =>
        /\ op.out.kind = "ok"
        /\ Len(op.seen) = Len(op.keys)
        /\ MapKeys(op.out.map) = KeysSeen(op.keys, op.seen, 1)

\* list has omitted key a, deleted after the listing, and has returned key b
ListOmittedReturnedWitness ==
    /\ ListAnswered /\ op.keys = <<KA, KB>> /\ op.disturbed
    /\ ~op.seen[1].present /\ MapKeys(op.out.map) = <<KB>>

\* the operation is get(k), single-pair set(k, v) or single-key delete(k) called
\* with k the empty string
EmptyKeyCall ==
    \/ op.name \in {"get", "set"} /\ op.key = EmptyText
    \/ op.name = "delete" /\ op.keys = <<EmptyText>>

\* the call has sent no request and has not touched the store
NoRequestSent ==
    /\ [](EmptyKeyCall => (op.pc = "done" /\ op.log = <<>> /\ inflight = {} /\ responses = {}))
    /\ [][EmptyKeyCall' => store' = store]_vars

\* C16 as stated: get(k), single-pair set(k, v) and single-key delete(k) called
\* with k the empty string fail with the validation error at once: no request
\* is issued and the store is unchanged.
EmptyKeyRaisesValidationError ==
    /\ NoRequestSent
    /\ [](EmptyKeyCall => op.out = Thrown(ValidationError))

\* C16 as amended: the three calls fail at once, with no request issued and
\* the store unchanged; get and set raise the validation error itself, and so
\* does delete when allSettled is false, while with allSettled true delete
\* raises an aggregate error that holds just the validation error.
EmptyKeyFailsWithoutRequest ==
    /\ NoRequestSent
    /\ [](EmptyKeyCall =>
              op.out = IF op.name = "delete" /\ allSettled
                       THEN ThrownAggregate(<<ValidationError>>)
                       ELSE Thrown(ValidationError))

\* delete of the empty key has failed on a store that holds entries, with
\* allSettled true
EmptyKeyDeleteWitness ==
    /\ op.name = "delete" /\ op.keys = <<EmptyText>> /\ allSettled /\ op.pc = "done"
    /\ op.out = ThrownAggregate(<<ValidationError>>) /\ store # EmptyStore

\* every status in the sequence is the rate-limit status
AllRateLimited(statuses) ==
    \A i \in DOMAIN statuses : statuses[i] = ExceedRateLimitsStatusCode

\* C17: #transaction re-sends a request only after a response of status 429
\* and at most #retry more times (1 by default): the first response of another
\* status is returned to the operation, and after #retry + 1 responses of
\* status 429 in a row the loop ends with the rate-limit error, no response
\* being returned.
TransactionRetriesOnRateLimitOnly ==
    (op.name = "transaction") =>
        /\ Len(op.log) <= retry + 1
        /\ \A i \in DOMAIN op.log : op.log[i] = op.log[1]
        /\ AllRateLimited(SubSeq(op.answers, 1, Len(op.log) - 1))
        /\ op.time = Len(op.log) - (IF op.pc = "done" /\ op.out.kind = "error" THEN 0 ELSE 1)
        /\ op.pc = "sleep" => (inflight = {} /\ responses = {})
        /\ (op.pc = "done" /\ op.out.kind = "ok") =>
               /\ Len(op.answers) = Len(op.log)
               /\ op.out.resp.status = op.answers[Len(op.answers)]
               /\ op.out.resp.status # ExceedRateLimitsStatusCode
               /\ op.out = ResolvedResponse(op.last)
        /\ (op.pc = "done" /\ op.out.kind # "ok") =>
               /\ op.out = Thrown(RateLimitError)
               /\ Len(op.answers) = retry + 1
               /\ AllRateLimited(op.answers)
        /\ (inflight = {} /\ responses = {} /\ op.pc # "sleep") =>
               /\ op.pc = "done"
               /\ (op.out.kind = "ok") <=> ~AllRateLimited(op.answers)

\* with the default #retry of 1, two responses of status 429 have ended the
\* loop with the rate-limit error
TransactionGaveUpWitness ==
    /\ op.name = "transaction" /\ op.pc = "done" /\ retry = DefaultRetry
    /\ op.answers = <<ExceedRateLimitsStatusCode, ExceedRateLimitsStatusCode>>
    /\ op.out = Thrown(RateLimitError) /\ Len(op.log) = 2

\* the keys a call of delete names: those of its one array, or its arguments
NamedKeys(args) ==
    IF Len(args) = 1 /\ args[1].array THEN args[1].items
    ELSE [i \in DOMAIN args |-> args[i].key]

\* C18: delete given a single key, an array of keys or the same keys as
\* separate arguments issues the same sequence of DELETE requests: what is
\* sent depends on the keys named and on their order, not on the form of the
\* call, so delete("a", "b") and delete(["a", "b"]) are equivalent and
\* delete("a") equals delete(["a"]).
DeleteFormsAreEquivalent ==
    (op.name = "delete") =>
        /\ op.keys = NamedKeys(op.args)
        /\ IsInitial(op.log, DeletesOf(url, NamedKeys(op.args)))
        /\ (op.pc = "done" /\ op.out.kind = "ok") =>
               op.log = DeletesOf(url, NamedKeys(op.args))
        /\ (op.pc = "done" /\ ~op.faulted) =>
               op.out = IF ~HasEmptyKey(NamedKeys(op.args)) THEN Resolved(Undefined)
                        ELSE IF allSettled THEN ThrownAggregate(op.stack)
                        ELSE Thrown(ValidationError)

\* delete(["a", "b"]) has sent the DELETE of a and then the DELETE of b
DeleteArrayWitness ==
    /\ op.name = "delete" /\ op.args = <<ArrItem(<<KA, KB>>)>> /\ op.pc = "done"
    /\ op.log = <<DeleteRequest(url, KA), DeleteRequest(url, KB)>>
    /\ op.out = Resolved(Undefined)

\* C19: no data operation (get, has, keys, list, set, delete, clear, size; entries
\* and values are list) changes the endpoint or the allSettled policy, whether
\* it succeeds or fails: the endpoint changes only in a refresh of a client built
\* from the environment, so a client built with an explicit url keeps its
\* endpoint forever.
OperationsKeepEndpointAndPolicy ==
    [][ /\ allSettled' = allSettled
        /\ fromEnv' = fromEnv
        /\ url' # url => (fromEnv /\ refresh'.tick # refresh.tick) ]_vars

\* a clear has failed with an aggregate error, after which the client built
\* with an explicit url has the endpoint and the policy of its construction
FailedOperationKeepsEndpointWitness ==
    /\ op.name = "clear" /\ op.pc = "done" /\ op.out.kind = "aggregate"
    /\ ~fromEnv /\ allSettled
    /\ url = [NewURL(GivenUrl).url EXCEPT !.search = <<>>, !.hash = <<>>]

\* C20: for a client constructed with an explicit url, in every reachable
\* state the endpoint has protocol http or https and hostname kv.replit.com,
\* and neither query string nor fragment: only the origin and the path of the
\* given url are kept.
ExplicitEndpointIsNormalized ==
    (~fromEnv /\ op.pc # "failed") =>
        /\ url.protocol \in {"http:", "https:"}
        /\ url.hostname = "kv.replit.com"
        /\ url.search = <<>>
        /\ url.hash = <<>>

\* a client has been constructed with a url that has a query string and a
\* fragment, and its endpoint has neither
EndpointNormalizedWitness ==
    /\ op.name = "constructor" /\ op.pc = "idle" /\ op.options.url = OptUrl(GivenUrl)
    /\ GivenUrl.search # <<>> /\ GivenUrl.hash # <<>>
    /\ url = [protocol |-> "https:", hostname |-> "kv.replit.com", pathname |-> "/v0/t1",
               search |-> <<>>, hash |-> <<>>]

\* the entries list has read: each listed key that the store held at its own
\* read, with the value the store held for it then, in listing order
RECURSIVE EntriesSeen(_, _, _)
EntriesSeen(keys, seen, i) ==
    IF i > Len(keys) \/ i > Len(seen) THEN <<>>
    ELSE (IF seen[i].present
          THEN <<[key |-> keys[i], val |-> JSONParse(seen[i].raw)]>> ELSE <<>>)
         \o EntriesSeen(keys, seen, i + 1)

\* the entries store st holds for the keys, in the keys' order
RECURSIVE StoreEntries(_, _, _)
StoreEntries(st, keys, i) ==
    IF i > Len(keys) THEN <<>>
    ELSE (IF keys[i] \in DOMAIN st
          THEN <<[key |-> keys[i], val |-> JSONParse(st[keys[i]])]>> ELSE <<>>)
         \o StoreEntries(st, keys, i + 1)

\* C21: list gives no snapshot isolation: every (key, value) pair of its result
\* is the value the store held for that key at the moment of that key's own
\* read, and without a concurrent writer the result equals the store's content
\* restricted to the listed keys.
ListReadsEachKeyAtItsOwnRead ==
    ListAnswered =>
        /\ op.out.kind = "ok"
        /\ op.out.map = EntriesSeen(op.keys, op.seen, 1)
        /\ ~op.disturbed => op.out.map = StoreEntries(store, op.keys, 1)

\* the same when no listed key holds a URL-reserved character
ListReadsEachPlainKeyAtItsOwnRead ==
    (ListAnswered /\ \A i \in DOMAIN op.keys : PlainKey(op.keys[i])) =>
        /\ op.out.kind = "ok"
        /\ op.out.map = EntriesSeen(op.keys, op.seen, 1)
        /\ ~op.disturbed => op.out.map = StoreEntries(store, op.keys, 1)

\* list has returned key a, which another client has deleted after list read
\* it: the result is a view the store no longer holds when list resolves
ListTornViewReached ==
    /\ ListAnswered /\ op.keys = <<KA, KB>> /\ op.disturbed
    /\ MapKeys(op.out.map) = <<KA, KB>> /\ KA \notin DOMAIN store

\* the step in which delete takes the response to the request of its item
DeleteTakesResponse ==
    op.name = "delete" /\ op.pc = "await" /\ responses # {} /\ responses' = {}

\* in that step the item fails with error e: e is pushed on errorsStack when
\* allSettled is true, and is thrown at once when it is false
DeleteItemFails(e) ==
    IF allSettled
    THEN Len(op'.stack) > Len(op.stack) /\ op'.stack[Len(op.stack) + 1] = e
    ELSE op'.pc = "done" /\ op'.idx = op.idx /\ op'.out = Thrown(e)

\* C22: a DELETE for a key counts as success iff the response status is 204
\* or 404; every other status, other 2xx statuses such as 200 included, makes
\* that key fail with a remote error that carries the status and the body.
DeleteSucceedsOn204Or404Only ==
    [][ DeleteTakesResponse =>
            LET r == op'.last
                e == RemoteError("delete", op.keys[op.idx], r)
            IN  /\ r \in responses
                /\ e.status = r.status /\ e.body = r.body
                /\ DeleteItemFails(e) <=> r.status \notin {204, 404}
                /\ r.status \in {204, 404} =>
                       /\ IsInitial(op.stack, op'.stack)
                       /\ \A j \in (Len(op.stack) + 1)..Len(op'.stack) :
                              op'.stack[j] = ValidationError
                       /\ op'.idx > op.idx ]_vars

\* a delete of key a has failed on the status 200, although the store has
\* deleted the entry
DeleteStatus200Witness ==
    /\ op.name = "delete" /\ op.keys = <<KA>> /\ op.pc = "done" /\ ~allSettled
    /\ op.last = Response(200, <<"e">>)
    /\ op.out = Thrown(RemoteError("delete", KA, Response(200, <<"e">>)))
    /\ prev.name = "set" /\ prev.key = KA /\ KA \notin DOMAIN store

\* key k satisfies filter f: the predicate is true of it, the pattern matches it
Satisfies(f, k) == IndexOf(k, {f.pattern}) <= Len(k)

\* the keys that satisfy f, in the order of keys
RECURSIVE Satisfying(_, _)
Satisfying(f, keys) ==
    IF keys = <<>> THEN <<>>
    ELSE (IF Satisfies(f, Head(keys)) THEN <<Head(keys)>> ELSE <<>>)
         \o Satisfying(f, Tail(keys))

\* what keys("") returns on store st
AllKeys(st) == DecodeAll(ListedKeys(st, <<>>, KeyOrder))

\* keys(f) has finished, every request of it answered by the store itself
KeysByAnswered == op.name = "keysBy" /\ op.pc = "done" /\ ~op.faulted

\* C23: for a pattern or predicate filter f, keys(f) returns exactly the keys
\* of keys("") that satisfy f, in the same relative order; the request sent to
\* the store carries an empty prefix, and f is applied to the decoded keys.
KeysByFilterSelects ==
    KeysByAnswered =>
        /\ op.log = <<KeysRequest(url, <<>>)>>
        /\ op.out = ResolvedList(Satisfying(op.by, KeysResult(op.last).list))
        /\ ~op.disturbed => op.out = ResolvedList(Satisfying(op.by, AllKeys(store)))

\* the same for the predicates and the regular expressions without the flag g
KeysByStatelessFilterSelects ==
    (KeysByAnswered /\ ~op.by.global) =>
        /\ op.log = <<KeysRequest(url, <<>>)>>
        /\ op.out = ResolvedList(Satisfying(op.by, KeysResult(op.last).list))
        /\ ~op.disturbed => op.out = ResolvedList(Satisfying(op.by, AllKeys(store)))

\* keys of a predicate on the character ? has returned the one key that holds
\* it, out of the encoded listing of three keys
KeysByPredicateReached ==
    /\ KeysByAnswered /\ op.by = FunctionFilter("?") /\ ~op.disturbed
    /\ DOMAIN store = {KA, KQ, KB} /\ op.out = ResolvedList(<<KQ>>)

\* the response the operation has taken last is a key listing with an empty body
EmptyListingTaken == ResponseOk(op.last) /\ op.last.body = <<>>

\* C24: when the body of the key-listing response is empty, keys returns the
\* empty sequence (never a sequence that holds an empty key), so on an empty
\* store size is 0 and clear issues no DELETE request and completes without
\* error.
EmptyListingGivesNoKeys ==
    /\ (op.name \in {"keys", "keysBy"} /\ op.pc = "done" /\ EmptyListingTaken) =>
           op.out = ResolvedList(<<>>)
    /\ (op.name = "size" /\ op.pc = "done" /\ EmptyListingTaken) =>
           op.out = ResolvedNum(0)
    /\ (op.name = "size" /\ Undisturbed /\ store = EmptyStore) =>
           op.out = ResolvedNum(0)
    /\ (op.name = "clear" /\ op.phase = "delete" /\ Len(op.log) = 1 /\ EmptyListingTaken) =>
           /\ op.keys = <<>>
           /\ op.pc = "done"
           /\ op.out = Resolved(Undefined)
           /\ inflight = {} /\ responses = {}
           /\ op.log = <<KeysRequest(url, <<>>)>>

\* clear has completed on an empty store with its key listing as only request
ClearEmptyStoreWitness ==
    /\ op.name = "clear" /\ Undisturbed /\ store = EmptyStore
    /\ op.last = Response(200, <<>>) /\ op.log = <<KeysRequest(url, <<>>)>>
    /\ op.out = Resolved(Undefined)

\* every listed key of the clear in progress is free of URL-reserved characters
ClearKeysPlain == \A i \in DOMAIN op.keys : PlainKey(op.keys[i])

\* the requests of a clear: one key listing with the empty prefix, then the
\* DELETE requests of listed keys, in listing order, each naming its key
ClearRequests ==
    /\ op.log[1] = KeysRequest(url, <<>>)
    /\ \A i \in 2..Len(op.log) :
           /\ op.log[i].method = "DELETE"
           /\ op.log[i].query = <<>>
           /\ PathKey(op.log[i].path) = op.keys[i - 1]
    /\ Len(op.log) <= Len(op.keys) + 1
    /\ (op.pc = "done" /\ op.out.kind = "ok") => Len(op.log) = Len(op.keys) + 1
    /\ (op.pc = "done" /\ allSettled /\ op.phase = "delete" /\ ResponseOk(op.last)) =>
           Len(op.log) = Len(op.keys) + 1
    /\ ~allSettled => (op.stack = <<>> /\ op.out.kind \in {"pending", "ok", "error"})
    /\ (allSettled /\ op.out.kind = "aggregate") => op.out = ThrownAggregate(op.stack)

\* the step in which clear takes the response to its key listing: the keys
\* are those of the listing, or the listing has failed, nothing more is sent
\* and its error is raised
ClearTakesListing ==
    (op.name = "clear" /\ op.phase = "keys" /\ op'.phase = "delete") =>
        IF ResponseOk(op'.last)
        THEN op'.keys = KeysResult(op'.last).list
        ELSE /\ op'.pc = "done"
             /\ op'.out = Thrown(RemoteError("keys", <<>>, op'.last))
             /\ op'.log = <<KeysRequest(url, <<>>)>>
             /\ inflight' = {}

\* the step in which the store answers a request of clear's delete phase
ClearIsServed ==
    /\ op.name = "clear" /\ op.phase = "delete"
    /\ inflight' # inflight /\ inflight' \subseteq inflight

\* C25: clear issues DELETE requests for exactly the keys returned by its
\* single empty-prefix key listing, in listing order and under the client's
\* batch policy: a key written after the listing (one that is not listed) is
\* not deleted, and if the listing fails no DELETE is issued and the listing's
\* error is raised.
ClearDeletesListedKeysOnly ==
    /\ [](op.name = "clear" => ClearRequests)
    /\ [][ClearTakesListing]_vars
    /\ [][ClearIsServed =>
              (DOMAIN store \ DOMAIN store') \subseteq ListedSet(op.keys)]_vars

\* the same for the clears whose listed keys hold no URL-reserved character
ClearDeletesListedPlainKeysOnly ==
    /\ [](op.name = "clear" /\ ClearKeysPlain => ClearRequests)
    /\ [][ClearTakesListing]_vars
    /\ [][ClearIsServed /\ ClearKeysPlain =>
              (DOMAIN store \ DOMAIN store') \subseteq ListedSet(op.keys)]_vars

\* clear has deleted listed key a and has left key b, written by another
\* client after the listing
ClearLeavesLaterKeyReached ==
    /\ op.name = "clear" /\ op.pc = "done" /\ op.out = Resolved(Undefined)
    /\ op.keys = <<KA>> /\ op.disturbed /\ DOMAIN store = {KB}

\* C26: for a client built from the environment variable the periodic refresh
\* stays scheduled in every reachable state: no operation, no failure of an
\* operation and no failed refresh cancels it, so a refresh always eventually
\* fires again; a client built with an explicit url never has a refresh
\* scheduled.
TimerStaysScheduled ==
    /\ [](fromEnv <=> ENABLED Refresh)
    /\ [][fromEnv' = fromEnv]_vars
    /\ [](~fromEnv => refresh = [tick |-> FALSE, failed |-> FALSE])
    /\ (fromEnv /\ ~refresh.tick) ~> refresh.tick
    /\ (fromEnv /\ refresh.tick) ~> ~refresh.tick

\* after a failed refresh and a failed operation the refresh can fire again
TimerAfterFailuresWitness ==
    /\ fromEnv /\ refresh.failed /\ env = EnvUnset
    /\ op.name = "delete" /\ op.pc = "done" /\ op.faulted /\ op.out.kind = "error"
    /\ ENABLED Refresh

\* the key is not the empty string
NonEmptyKey(k) == Len(k) > 0

\* request req of method GET or DELETE names key k in its path, and nothing else
PathNames(req, k) == req.query = <<>> /\ req.path # <<>> /\ PathKey(req.path) = k

\* the requests of the get, set or delete in progress name the keys it was
\* called with: the GET and DELETE requests in their path, the POST in its body
RequestsNameKeys ==
    /\ op.name = "get" => \A i \in DOMAIN op.log : PathNames(op.log[i], op.key)
    /\ op.name = "set" => \A i \in DOMAIN op.log : FormKey(op.log[i].body) = op.key
    /\ op.name = "delete" =>
           \A i \in DOMAIN op.log :
               PathNames(op.log[i], SelectSeq(op.keys, NonEmptyKey)[i])

\* C27: for every non-empty key k, keys that contain /, ?, # or % included,
\* get(k) and delete(k) address the store entry that set(k, v) wrote: the key
\* named in the path of the GET or DELETE request and the key named in the
\* POST body are the same key, k.
RequestsNameTheirKey == RequestsNameKeys

\* the same for the keys that hold no URL-reserved character
RequestsNameTheirPlainKey ==
    (PlainKey(op.key) /\ \A i \in DOMAIN op.keys : PlainKey(op.keys[i])) => RequestsNameKeys

\* set has named key a? in its body, percent-encoded
SetNamesReservedKeyReached ==
    /\ op.name = "set" /\ op.key = KQ /\ Undisturbed
    /\ FormKey(op.log[1].body) = KQ /\ KQ \in DOMAIN store

\* the values the endpoint takes: the valid URLs the variable is set to
WholeEndpoints == {NewURL(e.text).url : e \in {e \in EnvValues : e.defined /\ e.text.valid}}

\* C28: every request uses the whole endpoint value that is current at the
\* moment the request is issued, never a mixture of an old and a new value;
\* so a refresh that fires between two items of one batch operation sends the
\* later items to the new endpoint while the earlier items went to the old one.
RequestsUseCurrentEndpoint ==
    /\ [][\A req \in inflight' \ inflight :
              req.endpoint = url /\ req.endpoint \in WholeEndpoints]_vars
    /\ [](\A i \in DOMAIN op.log : op.log[i].endpoint \in WholeEndpoints)
    /\ []((op.log # <<>> /\ inflight # {}) => inflight = {op.log[Len(op.log)]})

\* a delete of two keys has sent the request of the first key to one endpoint
\* and, a refresh having fired in between, that of the second to another
RefreshBetweenItemsWitness ==
    /\ op.name = "delete" /\ op.keys = <<KA, KB>> /\ op.pc = "done"
    /\ op.log = <<DeleteRequest(NewURL(EnvUrlA).url, KA),
                  DeleteRequest(NewURL(EnvUrlB).url, KB)>>
    /\ url = NewURL(EnvUrlB).url

\* the request of item j of the batch in progress
ItemRequest(j) ==
    IF op.name = "setTable" THEN SetRequest(url, op.keys[j], op.vals[j])
    ELSE DeleteRequest(url, op.keys[j])

\* a batch delete or table-form set is in progress or has just finished
InBatch == op.name \in {"delete", "setTable"}

\* the step in which the store answers the request of the batch's current item
BatchIsServed ==
    InBatch /\ op.pc = "await" /\ inflight' # inflight /\ inflight' \subseteq inflight

\* the step in which another client writes or deletes
OtherClientWrites ==
    op' = [op EXCEPT !.disturbed = TRUE] /\ inflight' = inflight /\ responses' = responses

\* the batch has failed
BatchHasFailed == InBatch /\ op.pc = "done" /\ op.out.kind \in {"error", "aggregate"}

\* the requests of the non-empty items of the batch up to item n, in order
ItemRequests(n) ==
    IF op.name = "setTable"
    THEN SetsOf(url, SubSeq(op.keys, 1, n), SubSeq(op.vals, 1, n))
    ELSE DeletesOf(url, SubSeq(op.keys, 1, n))

\* C29: a failed batch is never rolled back: when a fail-fast batch delete or
\* table-form set fails at item i, the effects of the items before i stay
\* applied in the store and the entries of the items after i are left as they
\* were; under allSettled = true every item that succeeded stays applied
\* although the batch raises an aggregate error.  The store changes during a
\* batch only by the effect of the item whose request it answers, a failing
\* item changes nothing, and a failed batch has sent the requests of its
\* items up to the failure and has nothing in flight that could undo them.
FailedBatchIsNotRolledBack ==
    /\ [][BatchIsServed =>
              \/ store' = store
              \/ /\ op'.faults = op.faults
                 /\ store' = ServerReply(store, ItemRequest(op.idx)).store]_vars
    /\ [][(InBatch /\ ~BatchIsServed /\ ~OtherClientWrites) => store' = store]_vars
    /\ [](BatchHasFailed =>
              /\ inflight = {} /\ responses = {}
              /\ ~allSettled =>
                     (op.out.kind = "error" /\ op.log = ItemRequests(op.idx))
              /\ allSettled =>
                     (op.out.kind = "aggregate" /\ op.log = ItemRequests(Len(op.keys))))

\* a fail-fast delete of keys a and b has failed at b, on the store's answer:
\* a is deleted, b is in the store, and no other client has written
FailFastNotRolledBackWitness ==
    /\ BatchHasFailed /\ op.name = "delete" /\ ~allSettled /\ ~op.disturbed
    /\ op.keys = <<KA, KB>> /\ op.idx = 2 /\ op.faults = <<2>>
    /\ KA \notin DOMAIN store /\ KB \in DOMAIN store

\* a settle-all table-form set of a and b has failed at a and has written b
SettleAllNotRolledBackReached ==
    /\ BatchHasFailed /\ op.name = "setTable" /\ allSettled /\ ~op.disturbed
    /\ op.keys = <<KA, KB>> /\ op.faults = <<1>> /\ DOMAIN store = {KB}

\* the positions of the empty keys of a batch
EmptyAt(keys) == {i \in DOMAIN keys : Len(keys[i]) = 0}

\* the position of the first empty key of a batch that holds one
FirstEmpty(keys) == CHOOSE i \in EmptyAt(keys) : \A j \in EmptyAt(keys) : i <= j

\* C30: in a batch delete with allSettled = true an empty key is recorded as
\* one failure, no request being sent for it, and does not stop the batch:
\* every non-empty key after it still gets its DELETE request, and the
\* aggregate error raised at the end includes the validation failure; with
\* allSettled = false the same empty key aborts the batch at its position.
EmptyKeyInBatchDelete ==
    (op.name = "delete" /\ HasEmptyKey(op.keys)) =>
        /\ \A i \in DOMAIN op.log : op.log[i] # DeleteRequest(url, EmptyText)
        /\ allSettled =>
               /\ IsInitial(op.log, DeletesOf(url, op.keys))
               /\ op.pc # "done" => op.out = Pending
               /\ op.pc = "done" =>
                      /\ op.idx = Len(op.keys) + 1
                      /\ op.log = DeletesOf(url, op.keys)
                      /\ op.out.kind = "aggregate"
                      /\ Cardinality({i \in DOMAIN op.out.errs :
                                         op.out.errs[i] = ValidationError})
                             = Cardinality(EmptyAt(op.keys))
                      /\ Len(op.out.errs) = Cardinality(EmptyAt(op.keys)) + Len(op.faults)
        /\ ~allSettled =>
               /\ op.idx <= FirstEmpty(op.keys)
               /\ IsInitial(op.log, DeletesOf(url, SubSeq(op.keys, 1, FirstEmpty(op.keys) - 1)))
               /\ (inflight = {} /\ responses = {}) => op.pc = "done"
               /\ op.pc = "done" => op.out.kind = "error"
               /\ (op.pc = "done" /\ ~op.faulted) =>
                      /\ op.idx = FirstEmpty(op.keys)
                      /\ op.out = Thrown(ValidationError)
                      /\ op.log = DeletesOf(url, SubSeq(op.keys, 1, FirstEmpty(op.keys) - 1))

\* a settle-all delete of the empty key and key a has deleted a and has
\* raised an aggregate error that holds the validation error
EmptyKeyInBatchWitness ==
    /\ op.name = "delete" /\ allSettled /\ op.pc = "done" /\ Undisturbed
    /\ op.keys = <<EmptyText, KA>> /\ op.log = <<DeleteRequest(url, KA)>>
    /\ op.last.status = 204 /\ KA \notin DOMAIN store
    /\ op.out = ThrownAggregate(<<ValidationError>>)

\* a fail-fast delete of key a, the empty key and key b has deleted a and
\* has stopped at the empty key: no request was sent for b
EmptyKeyAbortsBatchReached ==
    /\ op.name = "delete" /\ ~allSettled /\ op.pc = "done" /\ Undisturbed
    /\ op.keys = <<KA, EmptyText>> /\ op.log = <<DeleteRequest(url, KA)>>
    /\ op.idx = 2 /\ op.out = Thrown(ValidationError)

====
